---- MODULE Spec2Model ----
(***************************************************************************)
(* PyIRTAM (victoriyaforsythe/PyIRTAM): a model of PyIRTAM/lib.py and of  *)
(* PyIRTAM/coeff.py.                                                       *)
(*                                                                         *)
(*   Spec        run_PyIRTAM, the day driver: one call of the background   *)
(*               model, then per time step the four coefficient reads,     *)
(*               the merge with the background rows and the save.          *)
(*   SpecEDP     IRTAM_EDP_builder on one grid column and an altitude grid.*)
(*   SpecFile    IRTAM_read_files: the flat record and the 14x76 table.    *)
(*   SpecDensity IRTAM_density: the limits on B0 and B1.                   *)
(*   SpecNm      IRTAM_freq_to_Nm on an array of critical frequencies.     *)
(*   SpecCoeff   coeff.py: get_irtam_param_filename and repeated calls of  *)
(*               download_irtam_coeffs against a file system and a remote  *)
(*               service.                                                  *)
(*   SpecDiurnal IRTAM_diurnal_functions on a time array.                  *)
(*   SpecHmF1    IRTAM_find_hmF1 on the arrays of a few grid points.       *)
(*   SpecRR      Ramakrishnan_Rawer_function at one altitude.              *)
(*   SpecGamma   IRTAM_gamma: the product of the diurnal matrix of one     *)
(*               time frame and the table read from one file.              *)
(*                                                                         *)
(* Times are whole seconds (the code's decimal hours times 3600); the      *)
(* minute of a time step is cut as the code's double arithmetic cuts it.   *)
(* Floating point values that only flow through the program are symbolic   *)
(* records naming where they come from; densities are IEEE classes (nan,   *)
(* pinf, pos, zero).                                                       *)
(***************************************************************************)
EXTENDS Integers, Sequences, FiniteSets, TLC

VARIABLES
    \* ---- run_PyIRTAM
    aUT,        \* the time array, seconds of day (N_T values)
    irtam_dir,  \* directory of the IRTAM coefficients
    fs,         \* the file system: the set of paths that are files
    pc,         \* position in run_PyIRTAM
    it,         \* loop index of run_PyIRTAM (0-based)
    dtime,      \* datetime of the current step
    idx,        \* call_IRTAM_PyIRI: np.where(aUT == UT)[0], a set of 0-based rows
    nread,      \* IRTAM_read_coeff: number of tables read in this step
    tables,     \* IRTAM_read_coeff: the tables read in this step
    step,       \* what call_IRTAM_PyIRI returned for the current step
    day,        \* f2_day, f1_day, e_day, es_day, edp_day
    err,        \* the exception that left run_PyIRTAM, or "none"
    result,     \* what run_PyIRTAM returned, or "none"
    events,     \* history: the background call and every file read, in order
    produced,   \* history: what each completed call_IRTAM_PyIRI returned
    dcalls,     \* history: time_array and TOV of every diurnal basis call
    \* ---- IRTAM_EDP_builder
    x,          \* the caller's parameter array, one grid column (rows 0..11)
    x_in,       \* history: x as it was passed
    aalt,       \* the altitude grid
    density,    \* the returned density, one class per altitude
    selected,   \* history: per altitude, the regimes whose mask selected it
    epc,        \* position of the caller of IRTAM_EDP_builder
    \* ---- IRTAM_read_files
    lines,      \* the lines of the coefficient file
    full_array, \* the values parsed from the lines that are no comments
    F_IRTAM,    \* the returned table, rows 0..13 by columns 0..75
    ferr,       \* the exception raised by IRTAM_read_files
    fpc,        \* position of the caller of IRTAM_read_files
    \* ---- IRTAM_density
    gamma,      \* what IRTAM_gamma returned, at one grid point
    F2,         \* the dictionary IRTAM_density returns
    dpc,        \* position of the caller of IRTAM_density
    \* ---- IRTAM_freq_to_Nm
    freq,       \* the critical frequencies passed, in 1e-6 MHz
    Nm,         \* the returned peak densities, in 1e-4 m-3
    npc,        \* position of the caller of IRTAM_freq_to_Nm
    \* ---- coeff.py: get_irtam_param_filename and download_irtam_coeffs
    cdtime,     \* dtime: date and time of the coefficients
    param,      \* the coefficient parameter asked for
    cdir,       \* irtam_dir as passed ('' for the package directory)
    use_subdirs,    \* whether YYYY/MMDD subdirectories are used
    overwrite,  \* overwrite as the next call passes it
    disk,       \* the files: a set of <<path, content>>
    ddirs,      \* the directories that exist
    queries,    \* history: every URL asked of the remote service
    param_file,     \* what get_irtam_param_filename returned last
    calls,      \* history: one record per download_irtam_coeffs call
    \* ---- IRTAM_diurnal_functions
    time_array, \* the UTs passed, in minutes (hours times 60)
    tov,        \* TOV, the time of validity, in minutes
    D_IRTAM,    \* the returned matrix D, [N_T, 14]
    dipc,       \* position of the caller of IRTAM_diurnal_functions
    \* ---- IRTAM_find_hmF1
    hm_in,      \* the arrays passed: B0, B1, NmF2, hmF2, NmF1
    hmF1_out,   \* the returned hmF1, one value per grid point
    hpc,        \* position of the caller of IRTAM_find_hmF1
    \* ---- Ramakrishnan_Rawer_function
    rr_in,      \* the arguments: NmF2, hmF2, B0, B1, h
    rr_den,     \* the returned density
    rpc,        \* position of the caller of Ramakrishnan_Rawer_function
    \* ---- IRTAM_gamma
    DF,         \* np.matmul(D, F) for one coefficient table, [N_T, 76]
    gpc         \* position of the caller of IRTAM_gamma

runVars == <<aUT, irtam_dir, fs, pc, it, dtime, idx, nread, tables, step,
             day, err, result, events, produced, dcalls>>

edpVars == <<x, x_in, aalt, density, selected, epc>>

fileVars == <<lines, full_array, F_IRTAM, ferr, fpc>>

denVars == <<gamma, F2, dpc>>

nmVars == <<freq, Nm, npc>>

coeffVars == <<cdtime, param, cdir, use_subdirs, overwrite, disk, ddirs,
               queries, param_file, calls>>

diVars == <<time_array, tov, D_IRTAM, dipc>>

hm1Vars == <<hm_in, hmF1_out, hpc>>

rrVars == <<rr_in, rr_den, rpc>>

gmVars == <<DF, gpc>>

vars == <<runVars, edpVars, fileVars, denVars, nmVars, coeffVars,
          diVars, hm1Vars, rrVars, gmVars>>

-----------------------------------------------------------------------------
(* Bounds of the model *)

MaxNT == 2          \* longest time array
MaxMissing == 1     \* most coefficient files absent from the directory

(* Units *)
SecPerHour == 3600
SecPerMin == 60

\* The UTs a time array is drawn from, in seconds: 00:00:00, 00:00:30,
\* 00:01:00, 01:00:00 and 01:01:00 (aUT = 1 + 1 / 60.).
Times == {0, 30, 60, 3600, 3660}

\* year, month, day passed to run_PyIRTAM
RunDate == [year |-> 2022, month |-> 1, day |-> 5]

Dirs == {"irtam", "bad_path"}

-----------------------------------------------------------------------------
(* Helpers *)

SeqsUpTo(S, n) == UNION {[1..k -> S] : k \in 1..n}

SubsetsUpTo(S, n) == {T \in SUBSET S : Cardinality(T) <= n}

\* strftime's zero-padded decimal fields
Digits(n, w) == [i \in 1..w |-> (n \div (10 ^ (w - i))) % 10]

\* dtime.strftime('%Y%m%d') and dtime.strftime('%H%M%S')
StrYmd(d) == Digits(d.year, 4) \o Digits(d.month, 2) \o Digits(d.day, 2)
StrHMS(d) == Digits(d.hour, 2) \o Digits(d.minute, 2) \o Digits(d.second, 2)

\* ''.join([strftime('%Y%m%d'), '_', strftime('%H%M%S'), '.ASC'])
TimeStr(d) == StrYmd(d) \o <<"_">> \o StrHMS(d) \o <<".ASC">>

\* A faulty variant of ReadOrder: B1 is read before B0.
ReadOrder_Swapped == <<"B1in", "B0in", "foF2", "hmF2">>

\* The parameters in the order IRTAM_read_coeff reads them, with the name
\* each has in its file name.
ReadOrder == <<"B0in", "B1in", "foF2", "hmF2">>

\* os.path.join(coeff_dir, '%Y', '%m%d', 'IRTAM_<P>_COEFFS_' + time_str)
CoeffPath(dir, d, pname) ==
    <<dir, Digits(d.year, 4), Digits(d.month, 2) \o Digits(d.day, 2),
      <<"IRTAM", "_", pname, "_", "COEFFS", "_">> \o TimeStr(d)>>

\* dt.datetime(year, month, day, hour, minute, 0)
DateTime(date, hour, minute) ==
    [year |-> date.year, month |-> date.month, day |-> date.day,
     hour |-> hour, minute |-> minute, second |-> 0]

\* The UTs of Times that are a whole number of minutes and whose fraction
\* of the hour, times 60., is in double precision less than that number
LossyTimes == {3660}

\* run_PyIRTAM:
\* hour = int(np.fix(aUT[it])); minute = int((aUT[it] - hour) * 60.)
StepHour(t) == t \div SecPerHour
\* int() cuts the double (aUT[it] - hour) * 60. towards zero.  For the time
\* in LossyTimes the double is below the whole minute it stands for:
\* (1.0166666666666666 - 1) * 60. is 0.9999999999999964.
StepMinute(t) ==
    (((t - StepHour(t) * SecPerHour) * 60) \div SecPerHour)
        - (IF t \in LossyTimes THEN 1 ELSE 0)
StepTime(t) == DateTime(RunDate, StepHour(t), StepMinute(t))

\* call_IRTAM_PyIRI: UT = hour + minute / 60 + second / 3600, in seconds
RebuiltUT(d) == d.hour * SecPerHour + d.minute * SecPerMin + d.second

\* IRTAM_density: aUT = np.array([dtime.hour + dtime.minute / 60.]);
\* D_IRTAM = IRTAM_diurnal_functions(aUT, TOV), in the time step `i`
DiurnalArgs(i, d, TOV) ==
    [it |-> i, time_array |-> d.hour * SecPerHour + d.minute * SecPerMin,
     TOV |-> TOV]

\* call_IRTAM_PyIRI: it = np.where(aUT == UT)[0], as 0-based rows
TimeIndex(a, d) == {i \in 0..(Len(a) - 1) : a[i + 1] = RebuiltUT(d)}

\* Every coefficient file the time set can ask for under the data directory
AllFiles ==
    {CoeffPath("irtam", StepTime(t), ReadOrder[k]) : t \in Times, k \in 1..4}

-----------------------------------------------------------------------------
(* IRTAM_read_files *)

\* A faulty variant of UnknownFileError: the message without the path.
UnknownFileError_NoPath(filename) ==
    [type |-> "IOError", msg |-> <<"unknown IRTAM coefficient file: ">>]

\* IOError('unknown IRTAM coefficient file: {:}'.format(filename))
UnknownFileError(filename) ==
    [type |-> "IOError",
     msg |-> <<"unknown IRTAM coefficient file: ", filename>>]

\* The table read from a file: in the day driver it is carried as the
\* name of the file it was read from.
TableOf(filename) == <<"table", filename>>

\* A faulty variant of IRTAM_read_files: no existence test, a table for
\* every path.
IRTAM_read_files_NoCheck(filename, files) ==
    [ok |-> TRUE, val |-> TableOf(filename)]

\* if not os.path.isfile(filename): raise IOError(...); else the table
IRTAM_read_files(filename, files) ==
    IF filename \notin files
    THEN [ok |-> FALSE, val |-> UnknownFileError(filename)]
    ELSE [ok |-> TRUE, val |-> TableOf(filename)]

-----------------------------------------------------------------------------
(* call_IRTAM_PyIRI: the values of one time step *)

NoError == [type |-> "none", msg |-> <<>>]

\* numpy's error when arr[it, :] of shape (len(it), N_G) is stored into an
\* array of shape (1, N_G) and len(it) is not 1
BroadcastError == [type |-> "ValueError", msg |-> <<"could not broadcast">>]

\* arr[it, :] for the background array `key`: one row per matched index
BgRows(key, rows) ==
    LET RECURSIVE Up(_)
        Up(i) == IF i >= MaxNT THEN <<>>
                 ELSE (IF i \in rows THEN <<(<<"bg", key, i>>)>> ELSE <<>>)
                      \o Up(i + 1)
    IN Up(0)

\* The whole background array `key`, N_T rows
BgAll(key, n) == BgRows(key, 0..(n - 1))

\* IRTAM_density: aUT = hour + minute / 60 of dtime, the diurnal basis for
\* (aUT, TOV), the four tables, the product and the limits
IRTAM_f2(d, TOV, tabs) ==
    LET D == <<"D", d.hour * SecPerHour + d.minute * SecPerMin, TOV>>
    IN [B0 |-> <<(<<"clip", "gamma", D, tabs[1]>>)>>,
        B1 |-> <<(<<"clip", "gamma", D, tabs[2]>>)>>,
        fo |-> <<(<<"gamma", D, tabs[3]>>)>>,
        hm |-> <<(<<"gamma", D, tabs[4]>>)>>]

\* IRTAM_F2_top_thickness: the value of the empirical formula, named by its
\* arguments.  No function of lib.py calls it.
IRTAM_F2_top_thickness(foF2, hmF2, B_0, F107) ==
    <<"IRTAM_F2_top_thickness", foF2, hmF2, B_0, F107>>

\* IRTAM_reconstruct_density_from_parameters: the 12 rows of x, each row 0
\* of a dictionary entry, handed to IRTAM_EDP_builder
IRTAM_reconstruct_density_from_parameters(F2r, F1r, Er) ==
    <<"IRTAM_EDP_builder",
      [NmF2 |-> F2r.Nm[1], NmF1 |-> F1r.Nm[1], NmE |-> Er.Nm[1],
       hmF2 |-> F2r.hm[1], hmF1 |-> F1r.hm[1], hmE |-> Er.hm[1],
       B0 |-> F2r.B0[1], B1 |-> F2r.B1[1],
       B_F2_top |-> F2r.B_top[1], B_F1_bot |-> F1r.B_bot[1],
       B_E_bot |-> Er.B_bot[1], B_E_top |-> Er.B_top[1]]>>

\* The four dictionaries and the EDP that call_IRTAM_PyIRI returns
StepResult(d, TOV, tabs, rows) ==
    LET f2    == IRTAM_f2(d, TOV, tabs)
        NmF1  == BgRows("f1.Nm", rows)
        NmE   == BgRows("e.Nm", rows)
        hmE   == BgRows("e.hm", rows)
        BF2t  == BgRows("f2.B_top", rows)
        BEb   == BgRows("f1.P", rows)
        BEt   == BgRows("e.B_top", rows)
        PF1   == BgRows("f1.P", rows)
        NmF2  == <<(<<"IRTAM_freq_to_Nm", f2.fo>>)>>
        hmF1  == <<(<<"IRTAM_find_hmF1", f2.B0, f2.B1, NmF2, f2.hm, NmF1>>)>>
        BF1b  == <<(<<"find_B_F1_bot", hmF1, hmE, PF1>>)>>
        F2r   == [Nm |-> NmF2, hm |-> f2.hm, B_top |-> BF2t,
                  B0 |-> f2.B0, B1 |-> f2.B1]
        F1r   == [Nm |-> NmF1, hm |-> hmF1, B_bot |-> BF1b]
        Er    == [Nm |-> NmE, hm |-> hmE, B_bot |-> BEb, B_top |-> BEt]
        Esr   == [Nm |-> BgRows("es.Nm", rows), hm |-> BgRows("es.hm", rows),
                  B_bot |-> BgRows("es.B_bot", rows),
                  B_top |-> BgRows("es.B_top", rows)]
    IN [F2 |-> F2r, F1 |-> F1r, E |-> Er, Es |-> Esr,
        EDP |-> IRTAM_reconstruct_density_from_parameters(F2r, F1r, Er)]

NoStep == <<>>

-----------------------------------------------------------------------------
(* run_PyIRTAM *)

\* f2_day, f1_day, e_day, es_day start empty, edp_day = edp_b * 0 and
\* f1_day['P'] = f1_b['P']
EmptyDay(n) ==
    [f2 |-> [k \in {"Nm", "hm", "B0", "B1", "B_top"} |-> <<>>],
     f1 |-> [k \in {"Nm", "hm", "B_bot", "P"} |->
                IF k = "P" THEN BgAll("f1.P", n) ELSE <<>>],
     e  |-> [k \in {"Nm", "hm", "B_bot", "B_top"} |-> <<>>],
     es |-> [k \in {"Nm", "hm", "B_bot", "B_top"} |-> <<>>],
     edp |-> [t \in 1..n |-> <<"zeros">>]]

\* A faulty variant of SaveKey: the new rows go in front.
SaveKey_Prepend(dayArr, stepArr, i) ==
    IF i = 0 THEN stepArr ELSE stepArr \o dayArr

\* if it == 0: day[key] = step[key][:]
\* else: day[key] = np.concatenate((day[key], step[key][:]), axis=0)
SaveKey(dayArr, stepArr, i) ==
    IF i = 0 THEN stepArr ELSE dayArr \o stepArr

SaveDict(dayDict, stepDict, i) ==
    [k \in DOMAIN dayDict |->
        IF k \in DOMAIN stepDict THEN SaveKey(dayDict[k], stepDict[k], i)
        ELSE dayDict[k]]

\* The variables run_PyIRTAM does not touch
otherThanRun == <<edpVars, fileVars, denVars, nmVars,
                  coeffVars, diVars, hm1Vars, rrVars, gmVars>>

RunInit ==
    /\ aUT \in SeqsUpTo(Times, MaxNT)
    /\ irtam_dir \in Dirs
    /\ \E miss \in SubsetsUpTo(AllFiles, MaxMissing) : fs = AllFiles \ miss
    /\ pc = "start"
    /\ it = 0
    /\ dtime = DateTime(RunDate, 0, 0)
    /\ idx = {}
    /\ nread = 0
    /\ tables = <<>>
    /\ step = NoStep
    /\ day = <<>>
    /\ err = NoError
    /\ result = <<>>
    /\ events = <<>>
    /\ produced = <<>>
    /\ dcalls = <<>>

\* ml.IRI_density_1day(...), once, then the empty day collections
CallIRI ==
    /\ pc = "start"
    /\ UNCHANGED otherThanRun
    /\ events' = Append(events, <<"IRI_density_1day">>)
    /\ day' = EmptyDay(Len(aUT))
    /\ it' = 0
    /\ pc' = "loop"
    /\ UNCHANGED <<aUT, irtam_dir, fs, dtime, idx, nread, tables, step, err,
                   result, produced, dcalls>>

\* A faulty variant of BeginStep: the background model is run again in
\* every time step.
BeginStep_CallsIRI ==
    /\ pc = "loop"
    /\ UNCHANGED otherThanRun
    /\ it < Len(aUT)
    /\ events' = Append(events, <<"IRI_density_1day">>)
    /\ dtime' = StepTime(aUT[it + 1])
    /\ idx' = TimeIndex(aUT, dtime')
    /\ dcalls' = Append(dcalls, DiurnalArgs(it, dtime', aUT[it + 1]))
    /\ nread' = 0
    /\ tables' = <<>>
    /\ pc' = "read"
    /\ UNCHANGED <<aUT, irtam_dir, fs, it, step, day, err, result, produced>>

\* for it in range(0, aUT.size): dtime of the step, then call_IRTAM_PyIRI
\* up to its time index
BeginStep ==
    /\ pc = "loop"
    /\ UNCHANGED otherThanRun
    /\ it < Len(aUT)
    /\ dtime' = StepTime(aUT[it + 1])
    /\ idx' = TimeIndex(aUT, dtime')
    /\ dcalls' = Append(dcalls, DiurnalArgs(it, dtime', aUT[it + 1]))
    /\ nread' = 0
    /\ tables' = <<>>
    /\ pc' = "read"
    /\ UNCHANGED <<aUT, irtam_dir, fs, it, step, day, err, result, events,
                   produced>>

\* IRTAM_read_coeff: the next of the four IRTAM_read_files calls; its
\* IOError leaves IRTAM_density, call_IRTAM_PyIRI and run_PyIRTAM
ReadCoeffFile ==
    /\ pc = "read"
    /\ UNCHANGED otherThanRun
    /\ nread < 4
    /\ LET file == CoeffPath(irtam_dir, dtime, ReadOrder[nread + 1])
           r == IRTAM_read_files(file, fs)
       IN /\ events' = Append(events, <<"read", file>>)
          /\ IF r.ok
             THEN /\ tables' = Append(tables, r.val)
                  /\ nread' = nread + 1
                  /\ pc' = IF nread + 1 = 4 THEN "merge" ELSE "read"
                  /\ err' = err
             ELSE /\ err' = r.val
                  /\ pc' = "raised"
                  /\ UNCHANGED <<tables, nread>>
    /\ UNCHANGED <<aUT, irtam_dir, fs, it, dtime, idx, step, day, result,
                   produced, dcalls>>

\* call_IRTAM_PyIRI after IRTAM_density: the background rows arr[it, :] are
\* stored into (1, N_G) arrays, the F2 values are updated, the EDP is built
MergeStep ==
    /\ pc = "merge"
    /\ UNCHANGED otherThanRun
    /\ IF Cardinality(idx) # 1
       THEN /\ err' = BroadcastError
            /\ pc' = "raised"
            /\ UNCHANGED <<step, produced>>
       ELSE /\ step' = StepResult(dtime, aUT[it + 1], tables, idx)
            /\ produced' = Append(produced, [it |-> it, out |-> step'])
            /\ pc' = "save"
            /\ err' = err
    /\ UNCHANGED <<aUT, irtam_dir, fs, it, dtime, idx, nread, tables, day,
                   result, events, dcalls>>

\* Save results: the first step initialises, later steps concatenate;
\* edp_day[it, :, :] = EDP
SaveStep ==
    /\ pc = "save"
    /\ UNCHANGED otherThanRun
    /\ day' = [f2 |-> SaveDict(day.f2, step.F2, it),
               f1 |-> SaveDict(day.f1, step.F1, it),
               e  |-> SaveDict(day.e, step.E, it),
               es |-> SaveDict(day.es, step.Es, it),
               edp |-> [day.edp EXCEPT ![it + 1] = step.EDP]]
    /\ it' = it + 1
    /\ pc' = "loop"
    /\ UNCHANGED <<aUT, irtam_dir, fs, dtime, idx, nread, tables, step, err,
                   result, events, produced, dcalls>>

\* return (f2_b, ..., edp_b, f2_day, f1_day, e_day, es_day, edp_day)
ReturnDay ==
    /\ pc = "loop"
    /\ UNCHANGED otherThanRun
    /\ it = Len(aUT)
    /\ result' = <<day>>
    /\ pc' = "returned"
    /\ UNCHANGED <<aUT, irtam_dir, fs, it, dtime, idx, nread, tables, step,
                   day, err, events, produced, dcalls>>

-----------------------------------------------------------------------------
(* IRTAM_EDP_builder *)

MaxAlt == 3         \* the altitude grid is 0..MaxAlt km

\* Floating point values whose size matters are <<"num", n>> or <<"nan", 0>>.
Num(n) == <<"num", n>>
NaN == <<"nan", 0>>
IsNum(v) == v[1] = "num"

\* numpy's comparisons of an altitude with a height: False when the height
\* is not-a-number
AltGe(a, h) == IsNum(h) /\ a >= h[2]
AltLe(a, h) == IsNum(h) /\ a <= h[2]
AltGt(a, h) == IsNum(h) /\ a > h[2]
AltLt(a, h) == IsNum(h) /\ a < h[2]

\* Densities are IEEE classes: "nan", "pinf", "pos" (finite, > 0), "zero".
\* np.isfinite and np.isnan of a peak density
IsFinite(c) == c \in {"pos", "zero"}
IsNan(c) == c = "nan"

\* a + b of two classes that are never negative
AddClass(a, b) ==
    IF a = "nan" \/ b = "nan" THEN "nan"
    ELSE IF a = "pinf" \/ b = "pinf" THEN "pinf"
    ELSE IF a = "pos" \/ b = "pos" THEN "pos"
    ELSE "zero"

\* a * b of two classes that are never negative
MulClass(a, b) ==
    IF a = "nan" \/ b = "nan" THEN "nan"
    ELSE IF (a = "pinf" /\ b = "zero") \/ (a = "zero" /\ b = "pinf") THEN "nan"
    ELSE IF a = "zero" \/ b = "zero" THEN "zero"
    ELSE IF a = "pinf" \/ b = "pinf" THEN "pinf"
    ELSE "pos"

\* The inputs: heights on the altitude grid or not-a-number, in any order;
\* peak densities finite, not-a-number or infinite; the two thicknesses
\* that have a default negative, zero or positive.  The E layer's peak
\* density and the thicknesses that divide (B0, B_E_bot, B_E_top) are
\* finite and positive.
Heights == {Num(h) : h \in 0..MaxAlt} \cup {NaN}

EDPInputs ==
    [NmF2 : {"pos", "nan", "pinf"},        \* x[0]
     NmF1 : {"pos", "nan", "pinf"},        \* x[1]
     NmE : {"pos"},                        \* x[2]
     hmF2 : Heights,                       \* x[3]
     hmF1 : Heights,                       \* x[4]
     hmE : Heights,                        \* x[5]
     B0 : {155},                           \* x[6]
     B1 : {2},                             \* x[7]
     B_F2_top : {-1, 0, 31},               \* x[8]
     B_F1_bot : {-1, 0, 64},               \* x[9]
     B_E_bot : {1},                        \* x[10]
     B_E_top : {7}]                        \* x[11]

\* A faulty variant of DefaultThickness: a thickness of zero is kept.
DefaultThickness_Strict(p) ==
    [p EXCEPT !.B_F1_bot = IF @ < 0 THEN 10 ELSE @,
              !.B_F2_top = IF @ < 0 THEN 30 ELSE @]

\* B_F1_bot[np.where(B_F1_bot <= 0)] = 10; B_F2_top[np.where(B_F2_top <= 0)] = 30
\* B_F1_bot and B_F2_top are views of rows 9 and 8 of x: the caller's array
\* is changed.
DefaultThickness(p) ==
    [p EXCEPT !.B_F1_bot = IF @ <= 0 THEN 10 ELSE @,
              !.B_F2_top = IF @ <= 0 THEN 30 ELSE @]

\* The five np.where masks, for altitude a and the parameters p

\* F2 top: a_alt >= a_hmF2
MaskF2Top(a, p) == AltGe(a, p.hmF2)

\* E bottom: a_alt <= a_hmE
MaskEBottom(a, p) == AltLe(a, p.hmE)

\* A faulty variant of MaskF2Bottom: the F2 peak itself is included.
MaskF2Bottom_Le(a, p) ==
    IsFinite(p.NmF1) /\ AltLe(a, p.hmF2) /\ AltGe(a, p.hmF1)

\* F1 present, F2 bottom down to F1:
\* isfinite(a_NmF1) & (a_alt < a_hmF2) & (a_alt >= a_hmF1)
MaskF2Bottom(a, p) ==
    IsFinite(p.NmF1) /\ AltLt(a, p.hmF2) /\ AltGe(a, p.hmF1)

\* E top plus F1 bottom: (a_alt > a_hmE) & (a_alt < a_hmF1)
MaskEF1Blend(a, p) == AltGt(a, p.hmE) /\ AltLt(a, p.hmF1)

\* F1 absent: isnan(a_NmF1) & (a_alt < a_hmF2) & (a_alt > a_hmE)
MaskEF2Blend(a, p) ==
    IsNan(p.NmF1) /\ AltLt(a, p.hmF2) /\ AltGt(a, p.hmE)

\* The regimes, numbered in the order the builder applies them
Regimes(a, p) ==
    {r \in 1..5 :
        \/ r = 1 /\ MaskF2Top(a, p)
        \/ r = 2 /\ MaskEBottom(a, p)
        \/ r = 3 /\ MaskF2Bottom(a, p)
        \/ r = 4 /\ MaskEF1Blend(a, p)
        \/ r = 5 /\ MaskEF2Blend(a, p)}

\* ml.epstein_function_array and ml.epstein_function_top_array of PyIRI,
\* amplitude A, thickness B > 0, finite height: A * e / (1 + e)^2 with e > 0
Epstein(A, B) == MulClass(A, "pos")

\* Ramakrishnan_Rawer_function for h < hmF2 and B0 > 0:
\* NmF2 * fexp(-(sign(x) * |x|^B1)) / cosh(x) with x > 0
Ramakrishnan_Rawer_function(NmF2, B0, B1) == MulClass(NmF2, "pos")

\* drop_1 and drop_2: 1 - (d / w)^4 with 0 < d < w inside the mask
Drop(d, w) == IF 0 < d /\ d < w THEN "pos" ELSE "zero"

\* density_F2, density_F1 and density_E at altitude a: each starts at zero
\* and is overwritten by every regime that selects the altitude, in order
DensityF2(a, p) ==
    LET A1 == MulClass("pos", p.NmF2)
        v1 == IF MaskF2Top(a, p) THEN Epstein(A1, p.B_F2_top) ELSE "zero"
        v3 == IF MaskF2Bottom(a, p)
              THEN Ramakrishnan_Rawer_function(p.NmF2, p.B0, p.B1) ELSE v1
    IN IF MaskEF2Blend(a, p)
       THEN MulClass(Ramakrishnan_Rawer_function(p.NmF2, p.B0, p.B1),
                     Drop(p.hmF2[2] - a, p.hmF2[2] - p.hmE[2]))
       ELSE v3

DensityF1(a, p) ==
    LET A2 == MulClass("pos", p.NmF1)
    IN IF MaskEF1Blend(a, p)
       THEN MulClass(Epstein(A2, p.B_F1_bot),
                     Drop(p.hmF1[2] - a, p.hmF1[2] - p.hmE[2]))
       ELSE "zero"

DensityE(a, p) ==
    LET A3 == MulClass("pos", p.NmE)
        v2 == IF MaskEBottom(a, p) THEN Epstein(A3, p.B_E_bot) ELSE "zero"
        v4 == IF MaskEF1Blend(a, p)
              THEN MulClass(Epstein(A3, p.B_E_top),
                            Drop(a - p.hmE[2], p.hmF1[2] - p.hmE[2]))
              ELSE v2
    IN IF MaskEF2Blend(a, p)
       THEN MulClass(Epstein(A3, p.B_E_top),
                     Drop(a - p.hmE[2], p.hmF2[2] - p.hmE[2]))
       ELSE v4

\* density[np.where(density <= 1.0)] = 1.0: not-a-number and +inf do not
\* compare <= 1 and stay; the result is "ge1" (finite, >= 1) otherwise
FloorDensity(c) == IF c \in {"nan", "pinf"} THEN c ELSE "ge1"

\* density = density_F2 + density_F1 + density_E, floored
DensityAt(a, p) ==
    FloorDensity(AddClass(AddClass(DensityF2(a, p), DensityF1(a, p)),
                          DensityE(a, p)))

EDPInit ==
    /\ x \in EDPInputs
    /\ x_in = x
    /\ aalt = [i \in 1..(MaxAlt + 1) |-> i - 1]
    /\ density = <<>>
    /\ selected = <<>>
    /\ epc = "call"

EDPIdle ==
    /\ x = <<>>
    /\ x_in = <<>>
    /\ aalt = <<>>
    /\ density = <<>>
    /\ selected = <<>>
    /\ epc = "idle"

\* density = IRTAM_EDP_builder(x, aalt)
EDPBuild ==
    /\ epc = "call"
    /\ x' = DefaultThickness(x)
    /\ selected' = [i \in DOMAIN aalt |-> Regimes(aalt[i], x')]
    /\ density' = [i \in DOMAIN aalt |-> DensityAt(aalt[i], x')]
    /\ epc' = "done"
    /\ UNCHANGED <<x_in, aalt>>
    /\ UNCHANGED <<runVars, fileVars, denVars, nmVars,
                   coeffVars, diVars, hm1Vars, rrVars, gmVars>>

-----------------------------------------------------------------------------
(* IRTAM_read_files: from the lines of a file to the 14 x 76 table *)

\* IRTAM_highest_power_of_extension: nj and nk of F0F2 and of IRTAM
nj_F0F2 == 13
nk_F0F2 == 76
nj_IRTAM == 14
nk_IRTAM == 76

\* array_main = full_array[0:988]; array_add = full_array[988:]
MainLen == 988

MaxPerLine == 5     \* most values on a line of a file
MaxComments == 1    \* most comment lines at the head of a file

Min(a, b) == IF a < b THEN a ELSE b
Max(a, b) == IF a > b THEN a ELSE b

\* Python's a[lo:hi] of a sequence, 0-based, hi cut to the length
Slice(a, lo, hi) ==
    LET h == Min(hi, Len(a))
    IN IF lo >= h THEN <<>> ELSE SubSeq(a, lo + 1, h)

\* The value patterns of the records: "index" numbers the values, "tail"
\* differs from it in the last 76 values only, "row1" in the values of the
\* old row 1 only, "mod" repeats small values
RecordKinds == {"index", "tail", "row1", "mod"}

RecordValue(kind, i) ==
    CASE kind = "index" -> i
      [] kind = "tail"  -> IF i > MainLen THEN i + 5000 ELSE i
      [] kind = "row1"  -> IF (i - 1) % nj_F0F2 = 1 THEN 0 - i ELSE i
      [] kind = "mod"   -> ((i * i) % 7) - 3

\* Record lengths: the well-formed 1064 and the lengths around 988 and 1064
RecordLengths ==
    {0, MainLen - 1, MainLen, MainLen + 1, MainLen + 2,
     MainLen + nk_IRTAM - 1, MainLen + nk_IRTAM, MainLen + nk_IRTAM + 1}

Record(kind, n) == [i \in 1..n |-> RecordValue(kind, i)]

\* A file: `nc` comment lines, the record cut into lines of `per` values,
\* one more comment line at the end when nc > 0
CommentLine == [comment |-> TRUE, vals |-> <<>>]

FileLines(rec, per, nc) ==
    LET nlines == (Len(rec) + per - 1) \div per
        data == [l \in 1..nlines |->
                    [comment |-> FALSE,
                     vals |-> Slice(rec, (l - 1) * per, l * per)]]
    IN [i \in 1..nc |-> CommentLine] \o data
       \o (IF nc > 0 THEN <<CommentLine>> ELSE <<>>)

\* for line in file_f: if line[0] != '#': full_array = concatenate(...)
\* (the concatenation of the lines lo..hi, split in halves)
RECURSIVE ParseRange(_, _, _)
ParseRange(ls, lo, hi) ==
    IF lo > hi THEN <<>>
    ELSE IF lo = hi THEN (IF ls[lo].comment THEN <<>> ELSE ls[lo].vals)
    ELSE LET mid == (lo + hi) \div 2
         IN ParseRange(ls, lo, mid) \o ParseRange(ls, mid + 1, hi)

ParseLines(ls) == ParseRange(ls, 1, Len(ls))

\* A faulty variant of ReshapeF: row-major (order='C').
ReshapeF_RowMajor(a, nj, nk) ==
    [j \in 0..(nj - 1) |-> [k \in 0..(nk - 1) |-> a[j * nk + k + 1]]]

\* np.reshape(a, (nj, nk), order='F'): element [j, k] is a[j + nj * k]
ReshapeF(a, nj, nk) ==
    [j \in 0..(nj - 1) |-> [k \in 0..(nk - 1) |-> a[j + nj * k + 1]]]

\* A faulty variant of InsertRow: the old rows are not shifted, old row 1
\* is lost and the last row stays zero.
InsertRow_NoShift(M, row) ==
    [j \in 0..(nj_IRTAM - 1) |->
        IF j = 0 THEN M[0]
        ELSE IF j = 1 THEN row
        ELSE IF j < nj_F0F2 THEN M[j]
        ELSE [k \in 0..(nk_IRTAM - 1) |-> 0]]

\* F_IRTAM[0, :] = F_CCIR_like[0, :]; F_IRTAM[1, :] = array_add;
\* F_IRTAM[2:, :] = F_CCIR_like[1:, :]
InsertRow(M, row) ==
    [j \in 0..(nj_IRTAM - 1) |->
        IF j = 0 THEN M[0] ELSE IF j = 1 THEN row ELSE M[j - 1]]

\* numpy's errors of the reshape and of the row assignment
ReshapeError(n) ==
    [type |-> "ValueError", msg |-> <<"cannot reshape array of size", n>>]
BroadcastRowError(n) ==
    [type |-> "ValueError", msg |-> <<"could not broadcast from shape", n>>]

\* The table for the parsed values, or the error numpy raises: the reshape
\* needs 988 values, the row assignment 76 values or one value (which numpy
\* broadcasts over the row)
TableFromArray(a) ==
    LET array_main == Slice(a, 0, MainLen)
        array_add == Slice(a, MainLen, Len(a))
    IN IF Len(array_main) # nj_F0F2 * nk_F0F2
       THEN [ok |-> FALSE, val |-> ReshapeError(Len(array_main))]
       ELSE IF Len(array_add) \notin {nk_IRTAM, 1}
       THEN [ok |-> FALSE, val |-> BroadcastRowError(Len(array_add))]
       ELSE [ok |-> TRUE,
             val |-> InsertRow(
                        ReshapeF(array_main, nj_F0F2, nk_F0F2),
                        [k \in 0..(nk_IRTAM - 1) |->
                            IF Len(array_add) = 1 THEN array_add[1]
                            ELSE array_add[k + 1]])]

FileInit ==
    /\ \E kind \in RecordKinds, n \in RecordLengths,
          per \in 4..MaxPerLine, nc \in 0..MaxComments :
          lines = FileLines(Record(kind, n), per, nc)
    /\ full_array = <<>>
    /\ F_IRTAM = <<>>
    /\ ferr = NoError
    /\ fpc = "call"

FileIdle ==
    /\ lines = <<>>
    /\ full_array = <<>>
    /\ F_IRTAM = <<>>
    /\ ferr = NoError
    /\ fpc = "idle"

\* F_IRTAM = IRTAM_read_files(filename) for a file that exists
ReadFile ==
    /\ fpc = "call"
    /\ full_array' = ParseLines(lines)
    /\ LET r == TableFromArray(full_array')
       IN IF r.ok
          THEN /\ F_IRTAM' = r.val
               /\ ferr' = ferr
               /\ fpc' = "done"
          ELSE /\ ferr' = r.val
               /\ F_IRTAM' = F_IRTAM
               /\ fpc' = "raised"
    /\ UNCHANGED lines
    /\ UNCHANGED <<runVars, edpVars, denVars, nmVars,
                   coeffVars, diVars, hm1Vars, rrVars, gmVars>>

-----------------------------------------------------------------------------
(* IRTAM_density: the limits on B0 and B1 *)

MaxRawB0 == 353     \* largest raw B0 of the product
MaxRawB1 == 9       \* largest raw B1 of the product

\* A faulty variant of Clip: no upper limit.
Clip_NoUpper(v, lo, hi) == Max(v, lo)

\* np.clip(v, lo, hi)
Clip(v, lo, hi) == Min(Max(v, lo), hi)

\* B1 = np.clip(B1, 1., 6.); B0 = np.clip(B0, 1., 350.);
\* F2 = {'B0': B0, 'B1': B1, 'fo': foF2, 'hm': hmF2}
LimitF2(g) ==
    [B0 |-> Clip(g.B0, 1, 350), B1 |-> Clip(g.B1, 1, 6),
     fo |-> g.fo, hm |-> g.hm]

DenInit ==
    /\ gamma \in [B0 : (0 - 3)..MaxRawB0, B1 : (0 - 3)..MaxRawB1,
                  fo : {-2, 7}, hm : {300}]
    /\ F2 = <<>>
    /\ dpc = "call"

DenIdle ==
    /\ gamma = <<>>
    /\ F2 = <<>>
    /\ dpc = "idle"

\* F2 = IRTAM_density(...), after IRTAM_gamma
DensityReturn ==
    /\ dpc = "call"
    /\ F2' = LimitF2(gamma)
    /\ dpc' = "done"
    /\ UNCHANGED gamma
    /\ UNCHANGED <<runVars, edpVars, fileVars, nmVars,
                   coeffVars, diVars, hm1Vars, rrVars, gmVars>>

-----------------------------------------------------------------------------
(* IRTAM_freq_to_Nm *)

MaxFreq == 4        \* largest |f|, in 1e-6 MHz
MaxNG == 2          \* most grid points of an array

\* The value 1. in units of 1e-4
NmOne == 10000

\* A faulty variant of FreqSquared: the sign of f is kept.
FreqSquared_Signed(v) ==
    IF IsNum(v) THEN Num(124 * v[2] * (IF v[2] < 0 THEN 0 - v[2] ELSE v[2]))
    ELSE NaN

\* 0.124 * f**2 * 1e11 for f = k * 1e-6: 124 * k * k in units of 1e-4;
\* not-a-number stays not-a-number
FreqSquared(v) == IF IsNum(v) THEN Num(124 * v[2] * v[2]) ELSE NaN

\* A faulty variant of FloorNm: zero is kept.
FloorNm_Strict(v) == IF IsNum(v) /\ v[2] < 0 THEN Num(NmOne) ELSE v

\* Nm[np.where(Nm <= 0)] = 1.: not-a-number does not compare <= 0
FloorNm(v) == IF IsNum(v) /\ v[2] <= 0 THEN Num(NmOne) ELSE v

IRTAM_freq_to_Nm(farr) ==
    [i \in DOMAIN farr |-> FloorNm(FreqSquared(farr[i]))]

Freqs == {Num(k) : k \in (0 - MaxFreq)..MaxFreq} \cup {NaN}

NmInit ==
    /\ freq \in SeqsUpTo(Freqs, MaxNG)
    /\ Nm = <<>>
    /\ npc = "call"

NmIdle ==
    /\ freq = <<>>
    /\ Nm = <<>>
    /\ npc = "idle"

\* Nm = IRTAM_freq_to_Nm(f); f itself is not changed
FreqToNm ==
    /\ npc = "call"
    /\ Nm' = IRTAM_freq_to_Nm(freq)
    /\ npc' = "done"
    /\ UNCHANGED freq
    /\ UNCHANGED <<runVars, edpVars, fileVars, denVars,
                   coeffVars, diVars, hm1Vars, rrVars, gmVars>>

-----------------------------------------------------------------------------
(* coeff.py: get_irtam_param_filename *)

MaxCalls == 2       \* most calls of download_irtam_coeffs in a row

CoeffTimes ==
    {[year |-> 2021, month |-> 1, day |-> 1,
      hour |-> 1, minute |-> 1, second |-> 1],
     [year |-> 2022, month |-> 12, day |-> 31,
      hour |-> 23, minute |-> 59, second |-> 30]}

\* The four supported parameters and an unsupported one
Params == {"B0", "B1", "foF2", "hmF2", "bad"}

CoeffDirs == {"", "test"}

\* PyIRTAM.irtam_coeff_dir
PackageDir == "PyIRTAM.irtam_coeff_dir"

\* A faulty variant of ParamName: only B0 gets the suffix.
ParamName_B0Only(p) == IF p = "B0" THEN <<p, "in">> ELSE <<p>>

\* if param in ['B0', 'B1']: param_name = ''.join([param, 'in'])
\* else: param_name = param
ParamName(p) == IF p \in {"B0", "B1"} THEN <<p, "in">> ELSE <<p>>

\* A faulty variant of get_irtam_param_filename: one subdirectory per day.
get_irtam_param_filename_DayDir(d, p, root_dir, subdirs) ==
    LET root == IF root_dir = "" THEN PackageDir ELSE root_dir
        name == <<"IRTAM", "_", ParamName(p), "_", "COEFFS", "_">>
                \o TimeStr(d)
    IN IF subdirs THEN <<root, StrYmd(d), name>> ELSE <<root, name>>

\* The path as the components os.path.join puts together:
\* root, '%Y', '%m%d', 'IRTAM_<param_name>_COEFFS_' + time_str, or
\* root, 'IRTAM_<param_name>_COEFFS_' + time_str
get_irtam_param_filename(d, p, root_dir, subdirs) ==
    LET root == IF root_dir = "" THEN PackageDir ELSE root_dir
        name == <<"IRTAM", "_", ParamName(p), "_", "COEFFS", "_">>
                \o TimeStr(d)
    IN IF subdirs
       THEN <<root, Digits(d.year, 4),
              Digits(d.month, 2) \o Digits(d.day, 2), name>>
       ELSE <<root, name>>

-----------------------------------------------------------------------------
(* coeff.py: download_irtam_coeffs *)

\* os.path.dirname(param_file)
Dirname(path) == SubSeq(path, 1, Len(path) - 1)

\* os.path.isfile(path)
IsFile(path, files) == \E e \in files : e[1] = path

\* A faulty variant of WriteFile: a file that is there keeps its content.
WriteFile_KeepOld(path, text, files) ==
    IF \E e \in files : e[1] = path THEN files
    ELSE files \cup {<<path, text>>}

\* with open(path, 'w') as fout: fout.write(text)
WriteFile(path, text, files) ==
    {e \in files : e[1] # path} \cup {<<path, text>>}

\* base_url + "?charName=" + param + "&time=" + strftime("%Y.%m.%dT%H:%M:%S")
QueryUrl(p, d) ==
    <<"https://lgdc.uml.edu/rix/gambit-coeffs", "?charName=", p, "&time=">>
    \o Digits(d.year, 4) \o <<".">> \o Digits(d.month, 2) \o <<".">>
    \o Digits(d.day, 2) \o <<"T">> \o Digits(d.hour, 2) \o <<":">>
    \o Digits(d.minute, 2) \o <<":">> \o Digits(d.second, 2)

\* The text a response can hold: with the header marker at the start or
\* further on, or without it
Responses ==
    {<<"START_HEADER", "coefficients">>,
     <<"banner", "START_HEADER", "coefficients">>,
     <<"ERROR: unknown characteristic">>,
     <<>>}

\* req.text.find('START_HEADER') < 0
NoHeader(text) == \A i \in DOMAIN text : text[i] # "START_HEADER"

\* The content of a file that was there before any call
OldContent == <<"old coefficients">>

\* Messages are sequences of parts: a literal text, a path, a URL or a
\* response text.
Lit(t) == <<"lit", t>>

\* 'IRTAM parameter coefficient file exists: {:}'.format(param_file)
ExistsMsg(path) ==
    <<Lit("IRTAM parameter "), Lit("coefficient file exists"), Lit(": "),
      <<"path", path>>>>

\* "".join(["Overwriting ", msg])
OverwritingMsg(msg) == <<Lit("Overwriting ")>> \o msg

\* ''.join([msg, '' if len(msg) == 0 else '\n',
\*          'Bad IRTAM coefficient query: ', url,
\*          '\nRemote message: ', req.text])
BadQueryMsg(msg, url, text) ==
    msg \o (IF Len(msg) = 0 THEN <<>> ELSE <<Lit("<newline>")>>)
    \o <<Lit("Bad IRTAM coefficient query"), Lit(": "), <<"url", url>>,
         Lit("<newline>Remote message: "), <<"text", text>>>>

\* requests.get(url) that fails to connect raises
ConnectionError == [type |-> "ConnectionError", msg |-> <<>>]

\* A faulty variant of QueryMsg: the message is cleared before the query.
QueryMsg_Cleared(existed, path) == <<>>

\* msg when the query is made: '' when there was no file, "Overwriting ..."
\* when there was one
QueryMsg(existed, path) ==
    IF existed THEN OverwritingMsg(ExistsMsg(path)) ELSE <<>>

\* A faulty variant of SkipDownload: the query is always made.
SkipDownload_Never(existed, ow) == FALSE

\* if os.path.isfile(param_file): ... if not overwrite: return
SkipDownload(existed, ow) == existed /\ ~ow

\* A faulty variant of BadQueryReturn: fstat is reported True.
BadQueryReturn_FileTrue(existed, path, url, text) ==
    <<FALSE, TRUE, BadQueryMsg(QueryMsg(existed, path), url, text)>>

\* return dstat, fstat, msg after a response without the header marker
BadQueryReturn(existed, path, url, text) ==
    <<FALSE, existed, BadQueryMsg(QueryMsg(existed, path), url, text)>>

CoeffInit ==
    /\ cdtime \in CoeffTimes
    /\ param \in Params
    /\ cdir \in CoeffDirs
    /\ use_subdirs \in BOOLEAN
    /\ overwrite \in BOOLEAN
    /\ LET pf == get_irtam_param_filename(cdtime, param, cdir, use_subdirs)
       IN \/ disk = {} /\ ddirs = {}
          \/ disk = {<<pf, OldContent>>} /\ ddirs = {Dirname(pf)}
    /\ queries = <<>>
    /\ param_file = <<>>
    /\ calls = <<>>

CoeffIdle ==
    /\ cdtime = [year |-> 2021, month |-> 1, day |-> 1,
                 hour |-> 1, minute |-> 1, second |-> 1]
    /\ param = "foF2"
    /\ cdir = ""
    /\ use_subdirs = TRUE
    /\ overwrite = FALSE
    /\ disk = {}
    /\ ddirs = {}
    /\ queries = <<>>
    /\ param_file = <<>>
    /\ calls = <<>>

\* param_file = get_irtam_param_filename(dtime, param, irtam_dir, use_subdirs)
GetFilename ==
    /\ param_file = <<>>
    /\ Len(calls) = 0
    /\ param_file' = get_irtam_param_filename(cdtime, param, cdir,
                                              use_subdirs)
    /\ UNCHANGED <<cdtime, param, cdir, use_subdirs, overwrite, disk, ddirs,
                   queries, calls>>
    /\ UNCHANGED <<runVars, edpVars, fileVars, denVars,
                   nmVars, diVars, hm1Vars, rrVars, gmVars>>

\* dstat, fstat, msg = download_irtam_coeffs(dtime, param, irtam_dir,
\*                                           use_subdirs, overwrite)
Download ==
    /\ Len(calls) < MaxCalls
    /\ LET root == IF cdir = "" THEN PackageDir ELSE cdir
           pf == get_irtam_param_filename(cdtime, param, root, use_subdirs)
           existed == IsFile(pf, disk)
           url == QueryUrl(param, cdtime)
           before == [existed |-> existed, disk |-> disk,
                      nq |-> Len(queries), overwrite |-> overwrite]
       IN /\ param_file' = pf
          /\ ddirs' = ddirs \cup {Dirname(pf)}
          /\ IF SkipDownload(existed, overwrite)
             THEN /\ calls' = Append(calls,
                         [before |-> before, kind |-> "skipped",
                          text |-> <<>>, err |-> NoError,
                          ret |-> <<FALSE, TRUE, ExistsMsg(pf)>>])
                  /\ UNCHANGED <<disk, queries>>
             ELSE /\ queries' = Append(queries, url)
                  /\ \/ /\ calls' = Append(calls,
                               [before |-> before, kind |-> "raised",
                                text |-> <<>>, err |-> ConnectionError,
                                ret |-> <<>>])
                        /\ UNCHANGED disk
                     \/ \E text \in Responses :
                           IF NoHeader(text)
                           THEN /\ calls' = Append(calls,
                                       [before |-> before,
                                        kind |-> "answered", text |-> text,
                                        err |-> NoError,
                                        ret |-> BadQueryReturn(existed, pf,
                                                               url, text)])
                                /\ UNCHANGED disk
                           ELSE /\ disk' = WriteFile(pf, text, disk)
                                /\ calls' = Append(calls,
                                       [before |-> before,
                                        kind |-> "answered", text |-> text,
                                        err |-> NoError,
                                        ret |-> <<TRUE, TRUE,
                                                  QueryMsg(existed, pf)>>])
    /\ overwrite' \in BOOLEAN
    /\ UNCHANGED <<cdtime, param, cdir, use_subdirs>>
    /\ UNCHANGED <<runVars, edpVars, fileVars, denVars,
                   nmVars, diVars, hm1Vars, rrVars, gmVars>>

-----------------------------------------------------------------------------
(* IRTAM_diurnal_functions *)

\* UTs and times of validity, in minutes
DiurnalTimes == {0, 30, 90, 1439}
ValidityTimes == {0, 15, 30, 90, 1439}

\* ml.set_diurnal_functions(nj, time_array) of PyIRI: nj rows, one column
\* per time; each value is named by its row and its time
set_diurnal_functions(nj, ta) ==
    [j \in 0..(nj - 1) |->
        [t \in 0..(Len(ta) - 1) |-> <<"D_CCIR", j, ta[t + 1]>>]]

\* (time_array - TOV) * 60. + 720., for times in minutes
ExtraTerm(ut, validity) == <<"min", (ut - validity) + 720>>

\* np.transpose of a matrix of nrow rows and ncol columns
Transpose(M, nrow, ncol) ==
    [c \in 0..(ncol - 1) |-> [r \in 0..(nrow - 1) |-> M[r][c]]]

\* A faulty variant of DiurnalRow: the climatological rows are shifted by
\* two.
DiurnalRow_ShiftTwo(D_CCIR, extra, j) ==
    IF j = 0 THEN D_CCIR[0] ELSE IF j = 1 THEN extra ELSE D_CCIR[j - 2]

\* D[0, :] = D_CCIR[0, :]; D[1, :] = (time_array - TOV) * 60. + 720.;
\* D[2:, :] = D_CCIR[1:, :]
DiurnalRow(D_CCIR, extra, j) ==
    IF j = 0 THEN D_CCIR[0] ELSE IF j = 1 THEN extra ELSE D_CCIR[j - 1]

\* D_CCIR = ml.set_diurnal_functions(nj F0F2, time_array); the 14 rows of
\* D; D = np.transpose(D)
IRTAM_diurnal_functions(ta, validity) ==
    LET D_CCIR == set_diurnal_functions(nj_F0F2, ta)
        extra == [t \in 0..(Len(ta) - 1) |-> ExtraTerm(ta[t + 1], validity)]
        rows == [j \in 0..(nj_IRTAM - 1) |-> DiurnalRow(D_CCIR, extra, j)]
    IN Transpose(rows, nj_IRTAM, Len(ta))

DiurnalInit ==
    /\ time_array \in SeqsUpTo(DiurnalTimes, MaxNT)
    /\ tov \in ValidityTimes
    /\ D_IRTAM = <<>>
    /\ dipc = "call"

DiurnalIdle ==
    /\ time_array = <<>>
    /\ tov = 0
    /\ D_IRTAM = <<>>
    /\ dipc = "idle"

\* D = IRTAM_diurnal_functions(time_array, TOV)
DiurnalCall ==
    /\ dipc = "call"
    /\ D_IRTAM' = IRTAM_diurnal_functions(time_array, tov)
    /\ dipc' = "done"
    /\ UNCHANGED <<time_array, tov>>
    /\ UNCHANGED <<runVars, edpVars, fileVars, denVars,
                   nmVars, coeffVars, hm1Vars, rrVars, gmVars>>

RunIdle ==
    /\ aUT = <<>>
    /\ irtam_dir = "irtam"
    /\ fs = {}
    /\ pc = "idle"
    /\ it = 0
    /\ dtime = DateTime(RunDate, 0, 0)
    /\ idx = {}
    /\ nread = 0
    /\ tables = <<>>
    /\ step = NoStep
    /\ day = <<>>
    /\ err = NoError
    /\ result = <<>>
    /\ events = <<>>
    /\ produced = <<>>
    /\ dcalls = <<>>

-----------------------------------------------------------------------------
(* IRTAM_find_hmF1: the height of the F1 peak on the F2 bottomside *)

\* +inf as a value of an array
Inf == <<"inf", 0>>

\* h = np.arange(0, 700, 1): the scanned heights 0..ScanTop - 1
ScanTop == 700

\* One grid point of the five arrays: NmF1 finite, not-a-number or infinite
HmF1Points ==
    [NmF2 : {Num(5), Num(6)}, hmF2 : {Num(300)}, B0 : {Num(100)},
     B1 : {Num(2), Num(3)}, NmF1 : {Num(1), NaN, Inf}]

\* The five arrays of a sequence of grid points
ArraysOf(pts) ==
    [B0 |-> [i \in DOMAIN pts |-> pts[i].B0],
     B1 |-> [i \in DOMAIN pts |-> pts[i].B1],
     NmF2 |-> [i \in DOMAIN pts |-> pts[i].NmF2],
     hmF2 |-> [i \in DOMAIN pts |-> pts[i].hmF2],
     NmF1 |-> [i \in DOMAIN pts |-> pts[i].NmF1]]

\* a = np.where(np.isfinite(NmF1))[0]: the 0-based indices of the finite
\* elements, in increasing order
RECURSIVE FiniteIndices(_, _)
FiniteIndices(arr, n) ==
    IF n = 0 THEN <<>>
    ELSE IF IsNum(arr[n]) THEN Append(FiniteIndices(arr, n - 1), n - 1)
         ELSE FiniteIndices(arr, n - 1)

\* den = Ramakrishnan_Rawer_function(NmF2[k], hmF2[k], B0[k], B1[k], h);
\* np.interp(NmF1[k], den, h): the height, among the scanned heights, at
\* which the profile of point k has the density NmF1[k]
InterpHeight(in, k) ==
    <<"interp",
      [at |-> in.NmF1[k + 1],
       den |-> [NmF2 |-> in.NmF2[k + 1], hmF2 |-> in.hmF2[k + 1],
                B0 |-> in.B0[k + 1], B1 |-> in.B1[k + 1]],
       hlo |-> 0, hhi |-> ScanTop - 1]>>

\* A faulty variant of StoreIndex: the loop counter is the grid index.
StoreIndex_Counter(a, i) == i

\* hmF1[0, a[i]] = ...: the grid index step i of the loop works on
StoreIndex(a, i) == a[i + 1]

\* hmF1 = np.zeros((1, B0.size)) + np.nan, then one value for every step i
\* of the loop over a, taken from and stored at the grid index of the step
IRTAM_find_hmF1(in) ==
    LET a == FiniteIndices(in.NmF1, Len(in.NmF1))
        steps(k) == {i \in 0..(Len(a) - 1) : StoreIndex(a, i) = k}
        last(k) == CHOOSE i \in steps(k) : \A m \in steps(k) : m <= i
    IN [j \in 1..Len(in.B0) |->
           IF steps(j - 1) = {} THEN NaN
           ELSE InterpHeight(in, a[last(j - 1) + 1])]

HmF1Init ==
    /\ hm_in \in {ArraysOf(pts) : pts \in SeqsUpTo(HmF1Points, MaxNG)}
    /\ hmF1_out = <<>>
    /\ hpc = "call"

HmF1Idle ==
    /\ hm_in = <<>>
    /\ hmF1_out = <<>>
    /\ hpc = "idle"

\* hmF1 = IRTAM_find_hmF1(B0, B1, NmF2, hmF2, NmF1)
FindHmF1 ==
    /\ hpc = "call"
    /\ hmF1_out' = IRTAM_find_hmF1(hm_in)
    /\ hpc' = "done"
    /\ UNCHANGED hm_in
    /\ UNCHANGED <<runVars, edpVars, fileVars, denVars, nmVars,
                   coeffVars, diVars, rrVars, gmVars>>

-----------------------------------------------------------------------------
(* Ramakrishnan_Rawer_function at one altitude, in floating point *)

\* The arguments: finite numbers, B0 > 0, B1 negative, zero or positive,
\* the altitude at the peak height or away from it
RRInputs ==
    [NmF2 : {Num(0), Num(5), Num(7)}, hmF2 : {Num(250), Num(300)},
     B0 : {Num(1), Num(100)},
     B1 : {Num(0 - 1), Num(0), Num(2), Num(6)},
     h : {Num(250), Num(300)}]

\* x = (hmF2 - h) / B0 with B0 > 0: zero at the peak, a quotient elsewhere
RR_x(hmF2, h, B0) ==
    IF hmF2[2] = h[2] THEN Num(0) ELSE <<"quot", hmF2[2] - h[2], B0[2]>>

\* A faulty variant of np_sign: zero counts as positive.
np_sign_NonNegative(v) ==
    IF v[1] = "num" THEN Num(1)
    ELSE IF v[2] > 0 THEN Num(1) ELSE Num(0 - 1)

\* np.sign(x): 0 for 0, 1 or -1 otherwise
np_sign(v) ==
    IF v[1] = "num" THEN Num(0)
    ELSE IF v[2] > 0 THEN Num(1) ELSE Num(0 - 1)

\* np.abs(x)**B1: for x = 0 it is 0 when B1 > 0, 1 when B1 = 0 and +inf
\* when B1 < 0; a positive number otherwise
np_abs_power(v, B1) ==
    IF v[1] = "num"
    THEN IF B1[2] > 0 THEN Num(0) ELSE IF B1[2] = 0 THEN Num(1) ELSE Inf
    ELSE <<"power", v, B1>>

\* np.sign(x) * np.abs(x)**B1: 0 * inf is not-a-number
SignedPower(sgn, pw) ==
    IF sgn = Num(0) THEN (IF pw = Inf THEN NaN ELSE Num(0))
    ELSE IF pw[1] = "num" THEN Num(sgn[2] * pw[2])
    ELSE <<"signed", sgn, pw>>

\* ml.fexp(-v) of PyIRI, the exponential: 1 for 0, never 1 for another
\* number, no number for not-a-number
fexp_neg(v) ==
    IF v = Num(0) THEN Num(1)
    ELSE IF v = NaN THEN NaN
    ELSE <<"fexp", v>>

\* np.cosh(x): 1 for 0, more than 1 otherwise
np_cosh(v) == IF v = Num(0) THEN Num(1) ELSE <<"cosh", v>>

\* den = NmF2 * ml.fexp(-(np.sign(x) * (np.abs(x)**B1))) / np.cosh(x)
Ramakrishnan_Rawer_den(NmF2, hmF2, B0, B1, h) ==
    LET xx == RR_x(hmF2, h, B0)
        e == fexp_neg(SignedPower(np_sign(xx), np_abs_power(xx, B1)))
        c == np_cosh(xx)
    IN IF e = NaN THEN NaN
       ELSE IF e = Num(1) /\ c = Num(1) THEN NmF2
       ELSE <<"den", [NmF2 |-> NmF2, e |-> e, c |-> c]>>

RRInit ==
    /\ rr_in \in RRInputs
    /\ rr_den = <<>>
    /\ rpc = "call"

RRIdle ==
    /\ rr_in = <<>>
    /\ rr_den = <<>>
    /\ rpc = "idle"

\* den = Ramakrishnan_Rawer_function(NmF2, hmF2, B0, B1, h)
RRCall ==
    /\ rpc = "call"
    /\ rr_den' = Ramakrishnan_Rawer_den(rr_in.NmF2, rr_in.hmF2, rr_in.B0,
                                        rr_in.B1, rr_in.h)
    /\ rpc' = "done"
    /\ UNCHANGED rr_in
    /\ UNCHANGED <<runVars, edpVars, fileVars, denVars, nmVars,
                   coeffVars, diVars, hm1Vars, gmVars>>

-----------------------------------------------------------------------------
(* IRTAM_gamma: the product of the diurnal matrix and a coefficient table *)

\* The number PyIRI's climatological diurnal function j has at time t
ClimValue(j, t) == (((j + 2) * (t + 3)) % 11) - 5

\* The number an element of D stands for
DValue(e) == IF e[1] = "min" THEN e[2] ELSE ClimValue(e[2], e[3])

\* The sum over the first n columns j of Drow[j] * F[j][k]
RECURSIVE DotProduct(_, _, _, _)
DotProduct(Drow, F, k, n) ==
    IF n = 0 THEN 0
    ELSE DotProduct(Drow, F, k, n - 1) + DValue(Drow[n - 1]) * F[n - 1][k]

\* np.matmul(D, F): D is [N_T, 14], F is [14, 76]
MatMul(D, F) ==
    [t \in DOMAIN D |->
        [k \in 0..(nk_IRTAM - 1) |-> DotProduct(D[t], F, k, nj_IRTAM)]]

\* IRTAM_density: one time frame and its time of validity for
\* IRTAM_diurnal_functions, one well-formed file for IRTAM_read_files
GammaInit ==
    /\ time_array \in {<<t>> : t \in DiurnalTimes}
    /\ tov \in ValidityTimes
    /\ D_IRTAM = <<>>
    /\ dipc = "call"
    /\ \E kind \in RecordKinds :
          lines = FileLines(Record(kind, MainLen + nk_IRTAM), MaxPerLine, 0)
    /\ full_array = <<>>
    /\ F_IRTAM = <<>>
    /\ ferr = NoError
    /\ fpc = "call"
    /\ DF = <<>>
    /\ gpc = "call"

GammaIdle ==
    /\ DF = <<>>
    /\ gpc = "idle"

\* IRTAM_gamma: np.matmul(D, F_B0), the inner product of each of the four
\* lines, once D and the table are there
GammaProduct ==
    /\ gpc = "call"
    /\ dipc = "done"
    /\ fpc = "done"
    /\ DF' = MatMul(D_IRTAM, F_IRTAM)
    /\ gpc' = "done"
    /\ UNCHANGED <<runVars, edpVars, fileVars, denVars, nmVars,
                   coeffVars, diVars, hm1Vars, rrVars>>

-----------------------------------------------------------------------------
(* Specifications *)

Init ==
    /\ RunInit
    /\ EDPIdle /\ FileIdle /\ DenIdle /\ NmIdle /\ CoeffIdle
    /\ DiurnalIdle /\ HmF1Idle /\ RRIdle /\ GammaIdle

Next ==
    \/ CallIRI
    \/ BeginStep
    \/ ReadCoeffFile
    \/ MergeStep
    \/ SaveStep
    \/ ReturnDay

Spec == Init /\ [][Next]_vars

InitEDP ==
    /\ EDPInit
    /\ RunIdle /\ FileIdle /\ DenIdle /\ NmIdle /\ CoeffIdle
    /\ DiurnalIdle /\ HmF1Idle /\ RRIdle /\ GammaIdle

NextEDP == EDPBuild

SpecEDP == InitEDP /\ [][NextEDP]_vars

InitFile ==
    /\ FileInit
    /\ RunIdle /\ EDPIdle /\ DenIdle /\ NmIdle /\ CoeffIdle
    /\ DiurnalIdle /\ HmF1Idle /\ RRIdle /\ GammaIdle

NextFile == ReadFile

SpecFile == InitFile /\ [][NextFile]_vars

InitDensity ==
    /\ DenInit
    /\ RunIdle /\ EDPIdle /\ FileIdle /\ NmIdle /\ CoeffIdle
    /\ DiurnalIdle /\ HmF1Idle /\ RRIdle /\ GammaIdle

NextDensity == DensityReturn

SpecDensity == InitDensity /\ [][NextDensity]_vars

InitNm ==
    /\ NmInit
    /\ RunIdle /\ EDPIdle /\ FileIdle /\ DenIdle /\ CoeffIdle
    /\ DiurnalIdle /\ HmF1Idle /\ RRIdle /\ GammaIdle

NextNm == FreqToNm

SpecNm == InitNm /\ [][NextNm]_vars

InitCoeff ==
    /\ CoeffInit
    /\ RunIdle /\ EDPIdle /\ FileIdle /\ DenIdle /\ NmIdle
    /\ DiurnalIdle /\ HmF1Idle /\ RRIdle /\ GammaIdle

NextCoeff ==
    \/ GetFilename
    \/ Download

SpecCoeff == InitCoeff /\ [][NextCoeff]_vars

InitDiurnal ==
    /\ DiurnalInit
    /\ RunIdle /\ EDPIdle /\ FileIdle /\ DenIdle /\ NmIdle /\ CoeffIdle
    /\ HmF1Idle /\ RRIdle /\ GammaIdle

NextDiurnal == DiurnalCall

SpecDiurnal == InitDiurnal /\ [][NextDiurnal]_vars

InitHmF1 ==
    /\ HmF1Init
    /\ RunIdle /\ EDPIdle /\ FileIdle /\ DenIdle /\ NmIdle /\ CoeffIdle
    /\ DiurnalIdle /\ RRIdle /\ GammaIdle

NextHmF1 == FindHmF1

SpecHmF1 == InitHmF1 /\ [][NextHmF1]_vars

InitRR ==
    /\ RRInit
    /\ RunIdle /\ EDPIdle /\ FileIdle /\ DenIdle /\ NmIdle /\ CoeffIdle
    /\ DiurnalIdle /\ HmF1Idle /\ GammaIdle

NextRR == RRCall

SpecRR == InitRR /\ [][NextRR]_vars

InitGamma ==
    /\ GammaInit
    /\ RunIdle /\ EDPIdle /\ DenIdle /\ NmIdle /\ CoeffIdle
    /\ HmF1Idle /\ RRIdle

NextGamma ==
    \/ DiurnalCall
    \/ ReadFile
    \/ GammaProduct

SpecGamma == InitGamma /\ [][NextGamma]_vars

-----------------------------------------------------------------------------
(* Properties of run_PyIRTAM, checked under Spec *)

IsRead(e) == Len(e) = 2
IsIRI(e) == Len(e) = 1

\* The coefficient files the steps of the time array ask for
StepFiles ==
    {CoeffPath(irtam_dir, StepTime(aUT[i]), ReadOrder[k]) :
        i \in 1..Len(aUT), k \in 1..4}

\* C4: when one of the coefficient files of a time step is missing the run
\* returns nothing: the IOError of IRTAM_read_files is the error that
\* leaves run_PyIRTAM, the read that raised it is the last read, every
\* earlier read found its file, and no step after the failing one ran.
C4_MissingFileAbortsDay ==
    /\ (\E f \in StepFiles : f \notin fs) => (pc # "returned" /\ result = <<>>)
    /\ result # <<>> => pc = "returned"
    /\ err.type = "IOError" =>
          /\ pc = "raised"
          /\ result = <<>>
          /\ Len(events) > 0
          /\ LET last == events[Len(events)]
             IN /\ IsRead(last)
                /\ last[2] \notin fs
                /\ err.msg[2] = last[2]
          /\ \A i \in 1..(Len(events) - 1) :
                IsRead(events[i]) => events[i][2] \in fs
          /\ Len(produced) = it
          /\ \A i \in 1..Len(events) :
                IsRead(events[i]) =>
                   \E j \in 1..(it + 1), k \in 1..4 :
                      events[i][2] =
                         CoeffPath(irtam_dir, StepTime(aUT[j]), ReadOrder[k])

\* C4 witness: the run failed on a missing file in a later step, after a
\* complete first step and after some files of the failing step were read.
C4_Witness ==
    /\ pc = "raised"
    /\ err.type = "IOError"
    /\ it >= 1
    /\ nread >= 1

\* A path that is no coefficient file, as in the test of the bad file name
BadFile == <<"bad_path", "bad_file.txt">>

\* C5: a read of a path that is not a file raises IOError with the message
\* 'unknown IRTAM coefficient file: ' followed by that path; in
\* IRTAM_read_coeff the path is the file name computed from the timestamp
\* and the parameter; no table is returned for it.
C5_UnknownFileError ==
    /\ \A f \in (AllFiles \cup StepFiles \cup {BadFile}) \ fs :
          IRTAM_read_files(f, fs) =
             [ok |-> FALSE,
              val |-> [type |-> "IOError",
                       msg |-> <<"unknown IRTAM coefficient file: ", f>>]]
    /\ (Len(events) > 0 /\ IsRead(events[Len(events)])
          /\ events[Len(events)][2] \notin fs) =>
          LET f == events[Len(events)][2]
          IN /\ pc = "raised"
             /\ err = [type |-> "IOError",
                       msg |-> <<"unknown IRTAM coefficient file: ", f>>]
             /\ f = CoeffPath(irtam_dir, dtime, ReadOrder[nread + 1])
             /\ f[4] = <<"IRTAM", "_", ReadOrder[nread + 1], "_", "COEFFS", "_">>
                          \o Digits(RunDate.year, 4) \o Digits(RunDate.month, 2)
                          \o Digits(RunDate.day, 2) \o <<"_">>
                          \o Digits(StepHour(aUT[it + 1]), 2)
                          \o Digits(StepMinute(aUT[it + 1]), 2)
                          \o <<0, 0, ".ASC">>
             /\ Len(tables) = nread
             /\ \A i \in 1..Len(tables) : tables[i] # TableOf(f)

\* C5 witness: IRTAM_read_coeff raised for the file of 00:01:00 under the
\* data directory.
C5_Witness ==
    /\ pc = "raised"
    /\ err.type = "IOError"
    /\ irtam_dir = "irtam"
    /\ dtime.minute = 1

\* C6: the background model is run exactly once in a run, before the first
\* coefficient file is read, and never inside the loop over the time steps.
C6_BackgroundOnce ==
    /\ pc = "start" => events = <<>>
    /\ pc # "start" =>
          /\ Len(events) >= 1
          /\ IsIRI(events[1])
          /\ \A i \in 2..Len(events) : IsRead(events[i])

\* C6 witness: a run over two time steps returned.
C6_Witness ==
    /\ pc = "returned"
    /\ Len(aUT) >= 2
    /\ Len(events) = 9

\* The keys each per-step dictionary holds
StepKeys ==
    [f2 |-> {"Nm", "hm", "B_top", "B0", "B1"},
     f1 |-> {"Nm", "hm", "B_bot"},
     e  |-> {"Nm", "hm", "B_bot", "B_top"},
     es |-> {"Nm", "hm", "B_bot", "B_top"}]

\* C7: after a successful run over N_T steps every per-step array of
\* f2_day, f1_day, e_day and es_day has N_T rows, row t being the row that
\* time step t produced, and edp_day[t] is the EDP of time step t.
C7_DayRowsInStepOrder ==
    pc = "returned" =>
       /\ Len(produced) = Len(aUT)
       /\ result = <<day>>
       /\ \A t \in 1..Len(aUT) :
             /\ produced[t].it = t - 1
             /\ day.edp[t] = produced[t].out.EDP
       /\ \A k \in StepKeys.f2 :
             /\ Len(day.f2[k]) = Len(aUT)
             /\ \A t \in 1..Len(aUT) : day.f2[k][t] = produced[t].out.F2[k][1]
       /\ \A k \in StepKeys.f1 :
             /\ Len(day.f1[k]) = Len(aUT)
             /\ \A t \in 1..Len(aUT) : day.f1[k][t] = produced[t].out.F1[k][1]
       /\ \A k \in StepKeys.e :
             /\ Len(day.e[k]) = Len(aUT)
             /\ \A t \in 1..Len(aUT) : day.e[k][t] = produced[t].out.E[k][1]
       /\ \A k \in StepKeys.es :
             /\ Len(day.es[k]) = Len(aUT)
             /\ \A t \in 1..Len(aUT) : day.es[k][t] = produced[t].out.Es[k][1]

\* C7 witness: a run over two different times returned.
C7_Witness ==
    /\ pc = "returned"
    /\ Len(aUT) >= 2
    /\ aUT[1] # aUT[2]

\* C8: in every time step the index set that call_IRTAM_PyIRI finds by
\* matching the rebuilt time against the time array is the single index of
\* the step.
C8_TimeIndexIsStep ==
    pc \in {"read", "merge", "save"} => idx = {it}

\* The IRTAM foF2, hmF2 and B0 of a completed step: the F2 dictionary holds
\* hm and B0, and Nm = IRTAM_freq_to_Nm(fo)
StepFo(p) == p.out.F2.Nm[1][2][1]
StepHm(p) == p.out.F2.hm[1]
StepB0(p) == p.out.F2.B0[1]

\* C13: the F2 top thickness of a step's merged F2 dictionary, which is
\* also row 8 of the array handed to the profile builder, is the value
\* IRTAM_F2_top_thickness gives for the step's IRTAM foF2, hmF2 and B0 and
\* the solar flux.
C13_TopThicknessFromFormula ==
    \A n \in DOMAIN produced :
       LET p == produced[n]
           B == IRTAM_F2_top_thickness(StepFo(p), StepHm(p), StepB0(p),
                                       "F107")
       IN /\ p.out.F2.B_top = <<B>>
          /\ p.out.EDP[2].B_F2_top = B

\* C14: in the E dictionary of a step, and in row 10 of the array handed to
\* the profile builder, B_bot is the background F1 probability f1['P'] of
\* that time step, not the background e_peak['B_bot'].
C14_EBotIsF1Probability ==
    \A n \in DOMAIN produced :
       LET p == produced[n]
       IN /\ p.out.E.B_bot = <<(<<"bg", "f1.P", p.it>>)>>
          /\ p.out.EDP[2].B_E_bot = <<"bg", "f1.P", p.it>>
          /\ p.out.E.B_bot # <<(<<"bg", "e.B_bot", p.it>>)>>

-----------------------------------------------------------------------------
(* Properties of IRTAM_EDP_builder, checked under SpecEDP *)

\* C1: every element of the density array that IRTAM_EDP_builder returns
\* is finite and >= 1, whatever the parameter array holds.
C1_DensityFiniteGe1 ==
    epc = "done" => \A i \in DOMAIN density : density[i] = "ge1"

\* C2 as stated: every (altitude, grid point) pair is selected by exactly
\* one of the five regimes, for every combination of hmE, hmF1, hmF2 and
\* NmF1.
C2_ExactlyOneRegime ==
    epc = "done" => \A i \in DOMAIN selected : Cardinality(selected[i]) = 1

\* The layers are in order: hmE < hmF2, and either the F1 peak density is
\* finite with hmE < hmF1 <= hmF2, or the F1 peak density and hmF1 are both
\* not-a-number (what IRTAM_find_hmF1 returns for an absent F1 layer).
OrderedLayers(p) ==
    /\ IsNum(p.hmE)
    /\ IsNum(p.hmF2)
    /\ p.hmE[2] < p.hmF2[2]
    /\ \/ /\ IsFinite(p.NmF1)
          /\ IsNum(p.hmF1)
          /\ p.hmE[2] < p.hmF1[2]
          /\ p.hmF1[2] <= p.hmF2[2]
       \/ /\ IsNan(p.NmF1)
          /\ ~IsNum(p.hmF1)

\* The regime the claim names for altitude a when the layers are in order
NamedRegime(a, p) ==
    IF a >= p.hmF2[2] THEN 1
    ELSE IF a <= p.hmE[2] THEN 2
    ELSE IF IsNan(p.NmF1) THEN 5
    ELSE IF a >= p.hmF1[2] THEN 3
    ELSE 4

\* C2 as amended: when the layers are in order, every (altitude, grid
\* point) pair is selected by exactly one regime, the one whose altitude
\* range holds it.
C2_ExactlyOneRegimeOrdered ==
    (epc = "done" /\ OrderedLayers(x_in)) =>
       \A i \in DOMAIN selected : selected[i] = {NamedRegime(aalt[i], x_in)}

\* C2 witness: a built profile with F1 present, hmE < hmF1 < hmF2, whose
\* altitudes fall into the E bottom, the E/F1 blend, the F2 bottom and the
\* F2 top.
C2_Witness ==
    /\ epc = "done"
    /\ OrderedLayers(x_in)
    /\ IsFinite(x_in.NmF1)
    /\ \A r \in 1..4 : \E i \in DOMAIN selected : selected[i] = {r}

-----------------------------------------------------------------------------
(* Properties of IRTAM_density, checked under SpecDensity *)

-----------------------------------------------------------------------------
(* Properties of IRTAM_read_files, checked under SpecFile *)

InverseTable(T) ==
    [main |-> [i \in 1..988 |->
                  LET j == (i - 1) % 13
                      k == (i - 1) \div 13
                  IN T[IF j = 0 THEN 0 ELSE j + 1][k]],
     add |-> [k \in 1..76 |-> T[1][k - 1]]]

\* C10: the inverse mapping applied to the table of a 1064-value record
\* gives back its 988-value part and its 76-value part, and no other
\* 1064-value record has the same table.
C10_RoundTrip ==
    (fpc = "done" /\ Len(full_array) = 1064) =>
       /\ InverseTable(F_IRTAM).main = SubSeq(full_array, 1, 988)
       /\ InverseTable(F_IRTAM).add = SubSeq(full_array, 989, 1064)
       /\ \A kind \in RecordKinds :
             Record(kind, 1064) # full_array =>
                TableFromArray(Record(kind, 1064)).val # F_IRTAM

\* C10 witness: a table was returned for the record that differs from the
\* numbering record in the values of the old row 1 only.
C10_Witness ==
    /\ fpc = "done"
    /\ Len(full_array) = 1064
    /\ full_array[2] < 0
    /\ full_array[1] = 1

-----------------------------------------------------------------------------
(* Properties of IRTAM_freq_to_Nm, checked under SpecNm *)

\* C11: for every element f, IRTAM_freq_to_Nm returns 1 when the converted
\* value 0.124 * f^2 * 1e11 is <= 0 and the converted value when it is > 0.
C11_FloorOnConverted ==
    npc = "done" =>
       /\ Len(Nm) = Len(freq)
       /\ \A i \in DOMAIN freq :
             IsNum(freq[i]) =>
                LET c == 124 * freq[i][2] * freq[i][2]
                IN /\ c <= 0 => Nm[i] = Num(10000)
                   /\ c > 0 => Nm[i] = Num(c)

\* C11 witness: a returned array with a floored element (f = 0) and an
\* element strictly between 0 and 1.
C11_Witness ==
    /\ npc = "done"
    /\ \E i \in DOMAIN freq : freq[i] = Num(0) /\ Nm[i] = Num(10000)
    /\ \E i \in DOMAIN Nm :
          IsNum(Nm[i]) /\ 0 < Nm[i][2] /\ Nm[i][2] < 10000

\* C12 as stated: for every foF2 input that is <= 0 the returned Nm is 1.
C12_NonPositiveFreqGivesOne ==
    npc = "done" =>
       \A i \in DOMAIN freq :
          (IsNum(freq[i]) /\ freq[i][2] <= 0) => Nm[i] = Num(10000)

\* C12 as amended: for foF2 = 0 the returned Nm is 1; for a negative foF2
\* it is the converted value, which is > 0 and the same as for |foF2|.
C12_ZeroFreqGivesOne ==
    npc = "done" =>
       \A i \in DOMAIN freq :
          /\ freq[i] = Num(0) => Nm[i] = Num(10000)
          /\ (IsNum(freq[i]) /\ freq[i][2] < 0) =>
                /\ Nm[i] = Num(124 * freq[i][2] * freq[i][2])
                /\ Nm[i][2] > 0
                /\ Nm[i] = IRTAM_freq_to_Nm(<<Num(0 - freq[i][2])>>)[1]

\* C12 witness: a returned array for a zero and a negative frequency.
C12_Witness ==
    /\ npc = "done"
    /\ \E i \in DOMAIN freq : freq[i] = Num(0)
    /\ \E i \in DOMAIN freq : IsNum(freq[i]) /\ freq[i][2] < 0

-----------------------------------------------------------------------------
(* Properties of coeff.py, checked under SpecCoeff *)

\* Zero-padded decimal fields, written out
Pad2(n) == <<n \div 10, n % 10>>
Pad4(n) == <<n \div 1000, (n \div 100) % 10, (n \div 10) % 10, n % 10>>

\* C15: the file name is <root>/<YYYY>/<MMDD>/IRTAM_<P>_COEFFS_<YYYYMMDD>_
\* <HHMMSS>.ASC with use_subdirs and <root>/IRTAM_<P>_COEFFS_<YYYYMMDD>_
\* <HHMMSS>.ASC without, <P> being B0in for B0, B1in for B1 and the
\* parameter name otherwise, and <root> irtam_dir or, for '', the package
\* coefficient directory.
C15_ParamFilename ==
    param_file # <<>> =>
       LET root == IF cdir = "" THEN "PyIRTAM.irtam_coeff_dir" ELSE cdir
           P == IF param = "B0" THEN <<"B0", "in">>
                ELSE IF param = "B1" THEN <<"B1", "in">>
                ELSE <<param>>
           name == <<"IRTAM", "_", P, "_", "COEFFS", "_">>
                   \o Pad4(cdtime.year) \o Pad2(cdtime.month)
                   \o Pad2(cdtime.day) \o <<"_">> \o Pad2(cdtime.hour)
                   \o Pad2(cdtime.minute) \o Pad2(cdtime.second)
                   \o <<".ASC">>
       IN IF use_subdirs
          THEN param_file = <<root, Pad4(cdtime.year),
                              Pad2(cdtime.month) \o Pad2(cdtime.day), name>>
          ELSE param_file = <<root, name>>

\* C15 witness: get_irtam_param_filename returned for B1, the package
\* directory and no subdirectories.
C15_Witness ==
    /\ param_file # <<>>
    /\ Len(calls) = 0
    /\ param = "B1"
    /\ cdir = ""
    /\ ~use_subdirs

\* The files and the number of queries after call n
DiskAfter(n) == IF n < Len(calls) THEN calls[n + 1].before.disk ELSE disk
QueriesAfter(n) ==
    IF n < Len(calls) THEN calls[n + 1].before.nq ELSE Len(queries)

\* A message holds the literal text t
HasLit(msg, t) == \E i \in DOMAIN msg : msg[i][1] = "lit" /\ msg[i][2] = t

\* C16: a call that finds the file present with overwrite False returns
\* dstat = False, fstat = True and a message with 'coefficient file exists',
\* makes no query and leaves the files as they are; every such call gives
\* the same result.
C16_ExistingFileKept ==
    \A n \in DOMAIN calls :
       (calls[n].before.existed /\ ~calls[n].before.overwrite) =>
          /\ calls[n].err = NoError
          /\ calls[n].ret[1] = FALSE
          /\ calls[n].ret[2] = TRUE
          /\ HasLit(calls[n].ret[3], "coefficient file exists")
          /\ QueriesAfter(n) = calls[n].before.nq
          /\ DiskAfter(n) = calls[n].before.disk
          /\ \A k \in DOMAIN calls :
                (calls[k].before.existed /\ ~calls[k].before.overwrite) =>
                   calls[k].ret = calls[n].ret

\* C16 witness: two calls in a row found the old file and kept it.
C16_Witness ==
    /\ Len(calls) = 2
    /\ ~calls[1].before.overwrite /\ ~calls[2].before.overwrite
    /\ calls[1].before.existed
    /\ calls[2].before.existed
    /\ disk = {<<param_file, OldContent>>}

C18_BadQueryNoWrite ==
    \A n \in DOMAIN calls :
       (calls[n].kind = "answered" /\ NoHeader(calls[n].text)) =>
          /\ calls[n].err = NoError
          /\ calls[n].ret[1] = FALSE
          /\ HasLit(calls[n].ret[3], "Bad IRTAM coefficient query")
          /\ DiskAfter(n) = calls[n].before.disk
          /\ ~calls[n].before.existed => calls[n].ret[2] = FALSE

\* C18 witness: the query for the unsupported parameter was answered
\* without the marker when there was no file, and again with overwrite
\* when the first answer had been good.
C18_Witness ==
    /\ Len(calls) >= 1
    /\ param = "bad"
    /\ calls[1].kind = "answered" /\ NoHeader(calls[1].text)
    /\ ~calls[1].before.existed
    /\ disk = {}

\* C19: whenever download_irtam_coeffs returns dstat = True and
\* fstat = True, the message is empty.
C19_BothTrueEmptyMsg ==
    \A n \in DOMAIN calls :
       (calls[n].kind # "raised" /\ calls[n].ret[1] /\ calls[n].ret[2]) =>
          calls[n].ret[3] = <<>>

-----------------------------------------------------------------------------
(* Properties of IRTAM_diurnal_functions, checked under SpecDiurnal *)

\* C20: D has shape [N_T, 14]; D[t, 0] is climatological diurnal function 0
\* at time t, D[t, 1] = (UT_t - TOV) * 60 + 720, and D[t, j] is
\* climatological diurnal function j - 1 for j = 2..13.
C20_DiurnalMatrix ==
    dipc = "done" =>
       /\ DOMAIN D_IRTAM = 0..(Len(time_array) - 1)
       /\ \A t \in 0..(Len(time_array) - 1) :
             /\ DOMAIN D_IRTAM[t] = 0..13
             /\ D_IRTAM[t][0] = <<"D_CCIR", 0, time_array[t + 1]>>
             /\ D_IRTAM[t][1] = <<"min", (time_array[t + 1] - tov) + 720>>
             /\ \A j \in 2..13 :
                   D_IRTAM[t][j] = <<"D_CCIR", j - 1, time_array[t + 1]>>

\* C20 witness: a matrix was returned for two different times, the second
\* before the time of validity.
C20_Witness ==
    /\ dipc = "done"
    /\ Len(time_array) = 2
    /\ time_array[1] # time_array[2]
    /\ time_array[2] < tov
    /\ D_IRTAM[1][1][2] < 720


-----------------------------------------------------------------------------
(* Claims about the thickness defaults of IRTAM_EDP_builder (SpecEDP) *)

\* C21: the builder computes every layer shape with an F1 bottom thickness
\* of 10 where the caller gave one <= 0 and with an F2 top thickness of 30
\* where the caller gave one <= 0; a positive thickness is the caller's.
C21_ThicknessDefaults ==
    epc = "done" =>
        /\ x.B_F1_bot = (IF x_in.B_F1_bot <= 0 THEN 10 ELSE x_in.B_F1_bot)
        /\ x.B_F2_top = (IF x_in.B_F2_top <= 0 THEN 30 ELSE x_in.B_F2_top)
        /\ x.B_F1_bot > 0 /\ x.B_F2_top > 0
        /\ density = [i \in DOMAIN aalt |-> DensityAt(aalt[i], x)]

\* A call with a zero F1 bottom thickness, a negative F2 top thickness
C21_Witness ==
    /\ epc = "done"
    /\ x_in.B_F1_bot = 0 /\ x.B_F1_bot = 10
    /\ x_in.B_F2_top = 0 - 1 /\ x.B_F2_top = 30

\* C24: after the call the caller's array x holds what it held before,
\* also where a thickness was <= 0.
C24_CallerArrayUnchanged == epc = "done" => x = x_in


-----------------------------------------------------------------------------
(* Claims about IRTAM_find_hmF1 (SpecHmF1) *)

\* C22: the returned hmF1 has one value per grid point: not-a-number where
\* NmF1 is not finite, and where NmF1 is finite the height interpolated at
\* NmF1 on the profile scanned over 0..699 km that is built from the NmF2,
\* hmF2, B0 and B1 of that same grid point.
C22_HmF1PerPoint ==
    hpc = "done" =>
        /\ Len(hmF1_out) = Len(hm_in.NmF1)
        /\ \A k \in DOMAIN hmF1_out :
              IF IsNum(hm_in.NmF1[k])
              THEN /\ hmF1_out[k][1] = "interp"
                   /\ hmF1_out[k][2].at = hm_in.NmF1[k]
                   /\ hmF1_out[k][2].den =
                          [NmF2 |-> hm_in.NmF2[k], hmF2 |-> hm_in.hmF2[k],
                           B0 |-> hm_in.B0[k], B1 |-> hm_in.B1[k]]
                   /\ hmF1_out[k][2].hlo = 0
                   /\ hmF1_out[k][2].hhi = 699
              ELSE hmF1_out[k] = NaN

\* Two grid points with different parameters, the first without an F1 peak
C22_Witness ==
    /\ hpc = "done"
    /\ Len(hmF1_out) = 2
    /\ hm_in.NmF1[1] = NaN /\ hmF1_out[1] = NaN
    /\ IsNum(hm_in.NmF1[2]) /\ hmF1_out[2][1] = "interp"
    /\ hm_in.NmF2[1] # hm_in.NmF2[2]

-----------------------------------------------------------------------------
(* Claims about Ramakrishnan_Rawer_function (SpecRR) *)

\* C23 as stated: at h = hmF2 the function returns exactly NmF2, for every
\* NmF2, hmF2, B1 and every B0 > 0.
C23_PeakValueAnyB1 ==
    (rpc = "done" /\ rr_in.h = rr_in.hmF2 /\ rr_in.B0[2] > 0) =>
        rr_den = rr_in.NmF2

\* C23: at h = hmF2 the function returns exactly NmF2, for every NmF2,
\* hmF2, every B1 >= 0 and every B0 > 0.
C23_PeakValue ==
    (rpc = "done" /\ rr_in.h = rr_in.hmF2 /\ rr_in.B0[2] > 0
        /\ rr_in.B1[2] >= 0) =>
        rr_den = rr_in.NmF2

\* A call at the peak with B1 = 0, where |x|^B1 is 1 and sign(x) is 0
C23_Witness ==
    /\ rpc = "done"
    /\ rr_in.h = rr_in.hmF2
    /\ rr_in.B1 = Num(0)
    /\ rr_in.NmF2 = Num(5)
    /\ rr_den = Num(5)


-----------------------------------------------------------------------------
(* Claims about the file reads of the time steps (Spec) *)

\* The file a time step reads for the k-th parameter: under irtam_dir, with
\* the timestamp built for the step (hour, minute, second 0)
OwnFile(t, k) ==
    CoeffPath(irtam_dir, StepTime(aUT[t]),
              <<"B0in", "B1in", "foF2", "hmF2">>[k])

\* The paths handed to IRTAM_read_files so far, in order
ReadsSoFar ==
    LET reads == SelectSeq(events, IsRead)
    IN [n \in DOMAIN reads |-> reads[n][2]]

\* C26: every time step reads its own four files, in the order B0in, B1in,
\* foF2, hmF2, with the timestamp of that step; a day that returns has read
\* exactly 4 * N_T files; a step whose first missing file is the i-th fails
\* after reading exactly i - 1 files of that step; the tables a step merges
\* are the ones read in that step.
C26_OwnFilesPerStep ==
    /\ \A n \in DOMAIN ReadsSoFar :
          ReadsSoFar[n] = OwnFile(((n - 1) \div 4) + 1, ((n - 1) % 4) + 1)
    /\ pc = "returned" => Len(ReadsSoFar) = 4 * Len(aUT)
    /\ pc \in {"merge", "save"} =>
          /\ Len(ReadsSoFar) = 4 * (it + 1)
          /\ tables = [k \in 1..4 |-> TableOf(OwnFile(it + 1, k))]
    /\ \A n \in DOMAIN produced :
          /\ produced[n].out.F2.B0[1][4] = TableOf(OwnFile(n, 1))
          /\ produced[n].out.F2.B1[1][4] = TableOf(OwnFile(n, 2))
          /\ produced[n].out.F2.hm[1][3] = TableOf(OwnFile(n, 4))
    /\ (pc = "raised" /\ err.type = "IOError") =>
          LET missing == {k \in 1..4 : OwnFile(it + 1, k) \notin fs}
              i == CHOOSE k \in missing : \A m \in missing : k <= m
          IN /\ missing # {}
             /\ Len(tables) = i - 1
             /\ tables = [k \in 1..(i - 1) |-> TableOf(OwnFile(it + 1, k))]
             /\ Len(ReadsSoFar) = 4 * it + i
             /\ err = UnknownFileError(OwnFile(it + 1, i))

\* A day of two steps at different times that returned
C26_Witness ==
    /\ pc = "returned"
    /\ Len(aUT) = 2
    /\ aUT[1] # aUT[2]
    /\ Len(ReadsSoFar) = 8
    /\ ReadsSoFar[1] # ReadsSoFar[5]

\* The second step fails at its third file after two reads
C26_WitnessMissing ==
    /\ pc = "raised"
    /\ it = 1
    /\ Len(tables) = 2
    /\ Len(ReadsSoFar) = 7

\* C30: in every time step whose time-array value is a whole number of
\* minutes, the diurnal basis is computed for time_array = TOV = that
\* step's UT, so its linear term (time_array - TOV) * 60 + 720 is 720.
C30_LinearTermIs720 ==
    \A n \in DOMAIN dcalls :
       LET c == dcalls[n]
           ut == aUT[c.it + 1]
       IN ut % SecPerMin = 0 =>
             /\ c.TOV = ut
             /\ c.time_array = c.TOV
             /\ ExtraTerm(c.time_array \div SecPerMin, c.TOV \div SecPerMin)
                   = <<"min", 720>>


-----------------------------------------------------------------------------
(* Claims about the value count of a coefficient file (SpecFile) *)

\* C27: a table is returned only for a file whose lines that are no
\* comments hold exactly 1064 values; for every other count the call
\* raises an error and returns no table.
C27_OnlyFullRecords ==
    /\ fpc = "done" => Len(full_array) = 1064
    /\ (fpc \in {"done", "raised"} /\ Len(full_array) # 1064) =>
          /\ fpc = "raised"
          /\ ferr.type # "none"
          /\ F_IRTAM = <<>>


-----------------------------------------------------------------------------
(* Claims about sequences of download_irtam_coeffs calls (SpecCoeff) *)

\* The calls up to call n that wrote the file
WritesUpTo(n) ==
    {m \in 1..n : calls[m].kind = "answered" /\ ~NoHeader(calls[m].text)}

\* The content the file has after call n if it is there: the text of the
\* most recent call that wrote it, or what it held before the first call
ContentAfter(n) ==
    IF WritesUpTo(n) = {} THEN OldContent
    ELSE LET last == CHOOSE m \in WritesUpTo(n) :
                        \A k \in WritesUpTo(n) : k <= m
         IN calls[last].text

\* C28: in every sequence of calls, each call that returns gives fstat as
\* whether the file is there when it returns, and dstat only together with
\* fstat; the file, when it is there, holds the text of the most recent
\* response with START_HEADER that was written, or what it held before the
\* first call.
C28_StatusMatchesDisk ==
    \A n \in DOMAIN calls :
       /\ calls[n].kind # "raised" =>
             /\ calls[n].ret[2] = IsFile(param_file, DiskAfter(n))
             /\ calls[n].ret[1] => calls[n].ret[2]
       /\ \A e \in DiskAfter(n) :
             e[1] = param_file => e[2] = ContentAfter(n)
       /\ (IsFile(param_file, DiskAfter(n)) /\ WritesUpTo(n) = {}) =>
             IsFile(param_file, calls[1].before.disk)

\* Two calls with different overwrite: the first kept the old file, the
\* second replaced it
C28_Witness ==
    /\ Len(calls) = 2
    /\ ~calls[1].before.overwrite /\ calls[2].before.overwrite
    /\ calls[1].kind = "skipped"
    /\ calls[2].kind = "answered" /\ calls[2].ret[1]
    /\ disk = {<<param_file, calls[2].text>>}


-----------------------------------------------------------------------------
(* Claims about the paths written and the paths read (SpecCoeff) *)

\* The parameters of the four files IRTAM_read_coeff opens, in its order
FourParams == <<"B0", "B1", "foF2", "hmF2">>

\* The text of a path: the file name as one sequence of pieces.  A path of
\* get_irtam_param_filename holds the parameter name as the pieces it joins,
\* a path of IRTAM_read_coeff holds it as one literal, spelled here.
Spell(pname) ==
    CASE pname = "B0in" -> <<"B0", "in">>
      [] pname = "B1in" -> <<"B1", "in">>
      [] OTHER -> <<pname>>
NameText(name, pieces) ==
    SubSeq(name, 1, 2) \o pieces \o SubSeq(name, 4, Len(name))
WrittenText(path) ==
    [path EXCEPT ![Len(path)] = NameText(@, @[3])]
ReadText(path) ==
    [path EXCEPT ![Len(path)] = NameText(@, Spell(@[3]))]

\* The path IRTAM_read_coeff(cdtime, cdir) opens for the parameter `param`
ReadPath ==
    LET k == CHOOSE i \in 1..4 : FourParams[i] = param
    IN ReadText(CoeffPath(cdir, cdtime, ReadOrder[k]))

\* The files as the reader finds them
DiskTexts == {WrittenText(e[1]) : e \in disk}

IsFourParam == \E i \in 1..4 : FourParams[i] = param

\* C29 as stated: for every timestamp and every root, '' included, the
\* path read equals the path get_irtam_param_filename returns with
\* use_subdirs = True, a file written with use_subdirs = True is found by
\* the reader, and with use_subdirs = False the paths differ.
C29_ReadPathIsWrittenPathAnyRoot ==
    IsFourParam =>
       /\ (param_file # <<>> /\ use_subdirs) =>
             WrittenText(param_file) = ReadPath
       /\ (param_file # <<>> /\ ~use_subdirs) =>
             WrittenText(param_file) # ReadPath
       /\ \A n \in DOMAIN calls :
             (use_subdirs /\ calls[n].kind # "raised" /\ calls[n].ret[1]) =>
                IRTAM_read_files(ReadPath, DiskTexts).ok

\* C29: for every timestamp and every root directory that is not '', the
\* path read equals the path get_irtam_param_filename returns with
\* use_subdirs = True, a file written with use_subdirs = True is found by
\* the reader, and with use_subdirs = False the paths differ.
C29_ReadPathIsWrittenPath ==
    (IsFourParam /\ cdir # "") =>
       /\ (param_file # <<>> /\ use_subdirs) =>
             WrittenText(param_file) = ReadPath
       /\ (param_file # <<>> /\ ~use_subdirs) =>
             WrittenText(param_file) # ReadPath
       /\ \A n \in DOMAIN calls :
             (use_subdirs /\ calls[n].kind # "raised" /\ calls[n].ret[1]) =>
                IRTAM_read_files(ReadPath, DiskTexts).ok

\* The B1 coefficients were downloaded into a given directory with
\* subdirectories, and the reader finds the file
C29_Witness ==
    /\ param = "B1"
    /\ cdir # ""
    /\ use_subdirs
    /\ Len(calls) >= 1
    /\ calls[1].kind = "answered" /\ calls[1].ret[1]
    /\ ~calls[1].before.existed
    /\ IRTAM_read_files(ReadPath, DiskTexts).ok


-----------------------------------------------------------------------------
(* Claims about the product of IRTAM_gamma (SpecGamma) *)

\* The climatological product for time ut and geographic index k: the sum
\* over the n first diurnal functions j of the function at ut times the
\* value j + 13 k of the record (the 13 x 76 matrix, column by column)
RECURSIVE ClimProduct(_, _, _)
ClimProduct(ut, k, n) ==
    IF n = 0 THEN 0
    ELSE ClimProduct(ut, k, n - 1)
         + ClimValue(n - 1, ut) * full_array[(n - 1) + 13 * k + 1]

\* C25: for each time t and each geographic index k the product D x T is
\* the climatological product of the 13 diurnal functions with the 13 x 76
\* matrix plus the linear term (UT - TOV) * 60 + 720 times the k-th of the
\* 76 correction values.
C25_ProductAligned ==
    gpc = "done" =>
       /\ DOMAIN DF = 0..(Len(time_array) - 1)
       /\ \A t \in DOMAIN DF : \A k \in 0..75 :
             DF[t][k] = ClimProduct(time_array[t + 1], k, 13)
                        + ((time_array[t + 1] - tov) + 720)
                          * full_array[988 + k + 1]

\* A product in which the linear term counts: the time differs from the
\* time of validity and the correction values differ from the others
C25_Witness ==
    /\ gpc = "done"
    /\ time_array[1] # tov
    /\ full_array[989] > 5000
    /\ DF[0][0] # ClimProduct(time_array[1], 0, 13)

====
